---- MODULE Spec2Model ----
(***************************************************************************)
(* Model of the news service (fetchNewsForCategory): the two cache tiers,  *)
(* the per-feed relay fan-out, the all-complete barrier, the deduplicator  *)
(* and the cache writer.                                                   *)
(*                                                                         *)
(* Strings that the code inspects character by character (titles) are     *)
(* sequences of UTF-16 code units.  An optional value is a sequence of     *)
(* length 0 (absent) or 1 (present).                                       *)
(***************************************************************************)
EXTENDS Integers, Sequences, FiniteSets, TLC

(***************************************************************************)
(* Bounds of the model.                                                    *)
(***************************************************************************)
\* number of call slots: calls of fetchNewsForCategory that may overlap
MaxActive == 1
\* number of calls started in one behaviour
MaxCalls == 2
\* number of times the clock advances in one behaviour
MaxTicks == 2
\* longest batch given to the deduplicator in SpecDedup
MaxBatch == 4

(***************************************************************************)
(* Program constants.                                                      *)
(***************************************************************************)
CACHE_DURATION == 5 * 60 * 1000

\* the four entries of the proxies list
NumProxies == 4

MsPerDay == 24 * 60 * 60 * 1000

None == <<>>
Some(x) == <<x>>

(***************************************************************************)
(* Categories and their feed lists.  X has two feeds, Y one, Z none.       *)
(***************************************************************************)
Category == {"X", "Y", "Z"}

RSS_FEEDS == [cat \in Category |->
                CASE cat = "X" -> <<"A", "B">>
                  [] cat = "Y" -> <<"C">>
                  [] OTHER     -> <<>>]

Feeds == {"A", "B", "C"}

(***************************************************************************)
(* Articles.  Titles are sequences of code units:                          *)
(*   72 H  105 i  33 !  104 h  32 space  97 a  98 b  49 1  67 C  63 ?      *)
(*   8490 KELVIN SIGN (lower-cases to 107 k)                               *)
(***************************************************************************)
Art(t, u) == [title |-> t, url |-> u]

a1 == Art(<<72, 105, 33>>, "a1")
a2 == Art(<<97>>, "a2")
a3 == Art(<<98, 49>>, "a3")
b1 == Art(<<104, 32, 105>>, "b1")
b2 == Art(<<67>>, "b2")
c1 == Art(<<8490>>, "c1")
c2 == Art(<<33, 33>>, "c2")
c3 == Art(<<63>>, "c3")
c4 == Art(<<107>>, "c4")

\* what a relay's content can parse into, per feed (always at least one item)
FeedItems == [f \in Feeds |->
                CASE f = "A" -> {<<a1, a2, a3>>}
                  [] f = "B" -> {<<b1, b2>>}
                  [] OTHER   -> {<<c1, c4>>, <<c2, c3>>}]

(***************************************************************************)
(* The deduplicator.                                                       *)
(***************************************************************************)
\* String.prototype.toLowerCase on one code unit
LowerChar(ch) ==
    IF ch \in 65..90 THEN ch + 32
    ELSE IF ch = 8490 THEN 107
    ELSE ch

\* the characters kept by replace(/[^a-z0-9]/g, '')
IsAlnum(ch) == ch \in 97..122 \/ ch \in 48..57

RECURSIVE Normalize(_)
Normalize(t) ==
    IF t = <<>> THEN <<>>
    ELSE LET ch == LowerChar(Head(t))
         IN  IF IsAlnum(ch) THEN <<ch>> \o Normalize(Tail(t))
             ELSE Normalize(Tail(t))

normalizedTitle(article) == Normalize(article.title)

RECURSIVE Filter(_, _)
Filter(all, seenTitles) ==
    IF all = <<>> THEN <<>>
    ELSE LET n == normalizedTitle(Head(all))
         IN  IF n \in seenTitles THEN Filter(Tail(all), seenTitles)
             ELSE <<Head(all)>> \o Filter(Tail(all), seenTitles \cup {n})

RECURSIVE FilterRaw(_, _)
FilterRaw(all, seenTitles) ==
    IF all = <<>> THEN <<>>
    ELSE LET n == Head(all).title
         IN  IF n \in seenTitles THEN FilterRaw(Tail(all), seenTitles)
             ELSE <<Head(all)>> \o FilterRaw(Tail(all), seenTitles \cup {n})

\* faulty variant: the titles are compared as they are, not normalized
uniqueArticles_RawTitles(allArticles) == FilterRaw(allArticles, {})

uniqueArticles(allArticles) == Filter(allArticles, {})

RECURSIVE Flat(_)
Flat(results) ==
    IF results = <<>> THEN <<>> ELSE Head(results) \o Flat(Tail(results))

(***************************************************************************)
(* Conversions of the cache tiers.                                         *)
(***************************************************************************)
\* JSON.stringify of {timestamp, articles}: the members in property order
\* faulty variant: the url member is written empty
StringifyArticle_LosesUrl(a) == << <<"title", a.title>>, <<"url", "">> >>

StringifyArticle(a) == << <<"title", a.title>>, <<"url", a.url>> >>

\* faulty variant: the entry is written without the time of the write
JSON_stringify_NoTime(entry) ==
    << <<"timestamp", 0>>,
       <<"articles", [i \in 1..Len(entry.articles) |->
                         StringifyArticle(entry.articles[i])]>> >>

JSON_stringify(entry) ==
    << <<"timestamp", entry.timestamp>>,
       <<"articles", [i \in 1..Len(entry.articles) |->
                         StringifyArticle(entry.articles[i])]>> >>

Member(obj, key) == (CHOOSE i \in 1..Len(obj) : obj[i][1] = key)

ParseArticle(s) == [title |-> s[Member(s, "title")][2],
                    url   |-> s[Member(s, "url")][2]]

JSON_parse(s) ==
    LET arts == s[Member(s, "articles")][2]
    IN  [timestamp |-> s[Member(s, "timestamp")][2],
         articles  |-> [i \in 1..Len(arts) |-> ParseArticle(arts[i])]]

\* new Date().toISOString() and new Date(iso).getTime()
toISOString(t) == <<t \div MsPerDay, t % MsPerDay>>
getTime(iso) == iso[1] * MsPerDay + iso[2]

\* faulty variant: the window is taken in seconds
isFresh_Seconds(timestamp, t) == (t - timestamp) < 5 * 60

\* faulty variant: an age of exactly the window is fresh
isFresh_Inclusive(timestamp, t) == (t - timestamp) <= CACHE_DURATION

isFresh(timestamp, t) == (t - timestamp) < CACHE_DURATION


(***************************************************************************)
(* The generative service: enhanceArticle.                                 *)
(***************************************************************************)
\* number of call slots of enhanceArticle: calls that may overlap
MaxEnhanceActive == 2
\* number of calls of enhanceArticle and generateNewsAudio in one behaviour
MaxGeminiCalls == 3

ArticleIds == {"rss_1", "rss_2"}
Descriptions == {"d1", "d2"}

\* an EnhancedArticleContent as the service writes it, in one of two wordings
Content(w) ==
    [fullArticle |-> <<"full", w>>,
     summaryShort |-> <<"summary", w>>,
     summaryRomanUrdu |-> <<"summary roman urdu", w>>,
     summaryUrdu |-> <<"summary urdu", w>>,
     summaryHindi |-> <<"summary hindi", w>>,
     summaryTelugu |-> <<"summary telugu", w>>,
     fullArticleRomanUrdu |-> <<"full roman urdu", w>>,
     fullArticleUrdu |-> <<"full urdu", w>>,
     fullArticleHindi |-> <<"full hindi", w>>,
     fullArticleTelugu |-> <<"full telugu", w>>]

\* faulty variant: the descriptions of all calls share one fallback
Degraded_Fixed(description) ==
    [fullArticle |->
         <<"d1", "\n\n(Full article generation unavailable at this moment.)">>,
     summaryShort |-> "d1",
     summaryRomanUrdu |-> "Tarjuma dastiyab nahi hai.",
     summaryUrdu |-> "summaryUrdu placeholder",
     summaryHindi |-> "summaryHindi placeholder",
     summaryTelugu |-> "summaryTelugu placeholder",
     fullArticleRomanUrdu |-> "d1",
     fullArticleUrdu |-> "d1",
     fullArticleHindi |-> "d1",
     fullArticleTelugu |-> "d1"]

\* the fallback object (a concatenation is the sequence of its parts; the
\* Urdu, Hindi and Telugu placeholders are named, not spelled)
Degraded(description) ==
    [fullArticle |->
         <<description,
           "\n\n(Full article generation unavailable at this moment.)">>,
     summaryShort |-> description,
     summaryRomanUrdu |-> "Tarjuma dastiyab nahi hai.",
     summaryUrdu |-> "summaryUrdu placeholder",
     summaryHindi |-> "summaryHindi placeholder",
     summaryTelugu |-> "summaryTelugu placeholder",
     fullArticleRomanUrdu |-> description,
     fullArticleUrdu |-> description,
     fullArticleHindi |-> description,
     fullArticleTelugu |-> description]

\* how a generateContent request for an article can end without content:
\* the request rejects, response.text is empty, JSON.parse throws, or the
\* text parses to null
GenerationFailures == {"rejects", "empty text", "unparsable", "null"}

(***************************************************************************)
(* The generative service: generateNewsAudio.  Texts are sequences of      *)
(* UTF-16 code units:                                                      *)
(*   35 #  42 *  32 space  98 b  99 c  97 a  104 h  105 i  120 x  33 !     *)
(*   55357 56832  the surrogate pair of U+1F600                            *)
(***************************************************************************)
\* number of call slots of generateNewsAudio
MaxAudioActive == 1

\* the length of the prefix of the text that enters the cache key
KeyPrefix == 100
\* the length to which the narrated text is cut
SpeechLimit == 4000

Rep(ch, n) == [i \in 1..n |-> ch]

\* the characters matched by \s that occur in the texts
IsSpace(ch) == ch \in {9, 10, 11, 12, 13, 32, 160}

\* the concatenation of parts[lo], ..., parts[hi]
RECURSIVE Join(_, _, _)
Join(parts, lo, hi) ==
    IF lo > hi THEN <<>>
    ELSE IF lo = hi THEN parts[lo]
    ELSE LET mid == (lo + hi) \div 2
         IN  Join(parts, lo, mid) \o Join(parts, mid + 1, hi)

\* the characters of a string that are not struck out (marked by a negative
\* number), in order
Strike(marked) == SelectSeq(marked, LAMBDA ch : ch >= 0)

trim(s) ==
    LET inner == {i \in 1..Len(s) : ~IsSpace(s[i])}
    IN  IF inner = {} THEN <<>>
        ELSE SubSeq(s, CHOOSE i \in inner : \A j \in inner : i <= j,
                       CHOOSE i \in inner : \A j \in inner : j <= i)

\* s.slice(0, n)
slice(s, n) == SubSeq(s, 1, IF Len(s) < n THEN Len(s) ELSE n)

\* a length converted to a string: its decimal digits
RECURSIVE Digits(_)
Digits(n) ==
    IF n < 10 THEN <<48 + n>> ELSE Digits(n \div 10) \o <<48 + (n % 10)>>

\* the high and the low surrogates
High == 55296..56319
Low == 56320..57343

\* s[i] is the first, s[i] the second half of a surrogate pair
PairAt(s, i) == s[i] \in High /\ i < Len(s) /\ s[i + 1] \in Low
PairEnd(s, i) == s[i] \in Low /\ i > 1 /\ s[i - 1] \in High

\* the UTF-8 bytes that the code unit s[i] contributes
Utf8At(s, i) ==
    LET c == s[i]
        cp == 65536 + (c - 55296) * 1024 + (s[i + 1] - 56320)
    IN  IF c < 128 THEN <<c>>
        ELSE IF c < 2048 THEN <<192 + (c \div 64), 128 + (c % 64)>>
        ELSE IF PairAt(s, i)
        THEN <<240 + (cp \div 262144), 128 + ((cp \div 4096) % 64),
               128 + ((cp \div 64) % 64), 128 + (cp % 64)>>
        ELSE IF PairEnd(s, i) THEN <<>>
        ELSE <<224 + (c \div 4096), 128 + ((c \div 64) % 64), 128 + (c % 64)>>

\* unescape(encodeURIComponent(s)): the UTF-8 bytes of s; encodeURIComponent
\* throws URIError on a surrogate that is not part of a pair (None)
Utf8(s) ==
    IF \E i \in 1..Len(s) :
           \/ s[i] \in High /\ ~PairAt(s, i)
           \/ s[i] \in Low /\ ~PairEnd(s, i)
    THEN None
    ELSE Some(Join([i \in 1..Len(s) |-> Utf8At(s, i)], 1, Len(s)))

\* the character of a base64 digit (64 is the padding)
Base64Char(d) ==
    IF d < 26 THEN 65 + d
    ELSE IF d < 52 THEN 97 + (d - 26)
    ELSE IF d < 62 THEN 48 + (d - 52)
    ELSE IF d = 62 THEN 43
    ELSE IF d = 63 THEN 47
    ELSE 61

\* the four characters of the g-th group of three bytes
Base64Group(bytes, g) ==
    LET n == Len(bytes) - 3 * (g - 1)
        x1 == bytes[3 * g - 2]
        x2 == IF n >= 2 THEN bytes[3 * g - 1] ELSE 0
        x3 == IF n >= 3 THEN bytes[3 * g] ELSE 0
    IN  <<Base64Char(x1 \div 4),
          Base64Char((x1 % 4) * 16 + (x2 \div 16)),
          Base64Char(IF n >= 2 THEN (x2 % 16) * 4 + (x3 \div 64) ELSE 64),
          Base64Char(IF n >= 3 THEN x3 % 64 ELSE 64)>>

btoa(bytes) ==
    LET groups == (Len(bytes) + 2) \div 3
    IN  Join([g \in 1..groups |-> Base64Group(bytes, g)], 1, groups)

\* faulty variant: the prefix is taken as the whole key
cacheKey_PrefixOnly(text) ==
    LET r == Utf8(slice(trim(text), KeyPrefix))
    IN  IF r = None THEN None ELSE Some(btoa(r[1]))

\* btoa(unescape(encodeURIComponent(text.trim().slice(0, 100) + text.length)))
\* (None when encodeURIComponent throws)
cacheKey(text) ==
    LET r == Utf8(slice(trim(text), KeyPrefix) \o Digits(Len(text)))
    IN  IF r = None THEN None ELSE Some(btoa(r[1]))

Http == <<104, 116, 116, 112, 58, 47, 47>>
Https == <<104, 116, 116, 112, 115, 58, 47, 47>>

\* the scheme p followed by at least one character of \S starts at s[j]
UrlAt(s, j, p) ==
    /\ j + Len(p) <= Len(s)
    /\ SubSeq(s, j, j + Len(p) - 1) = p
    /\ ~IsSpace(s[j + Len(p)])

\* replace(/https?:\/\/\S+/g, ''): a match runs from its scheme to the end of
\* the run of \S characters
RemoveUrls(s) ==
    LET starts == {j \in 1..Len(s) : UrlAt(s, j, Https) \/ UrlAt(s, j, Http)}
        inUrl(i) == \E j \in starts :
                        j <= i /\ \A k \in j..i : ~IsSpace(s[k])
    IN  Strike([i \in 1..Len(s) |-> IF inUrl(i) THEN 0 - 1 ELSE s[i]])

\* the characters of [*#_`~>\[\]\(\)]
Markup == {42, 35, 95, 96, 126, 62, 91, 93, 40, 41}

\* replace(/[*#_`~>\[\]\(\)]/g, '')
RemoveMarkup(s) == SelectSeq(s, LAMBDA ch : ch \notin Markup)

\* replace(/\s+/g, ' ')
CollapseSpaces(s) ==
    LET follows(i) == IsSpace(s[i]) /\ i > 1 /\ IsSpace(s[i - 1])
        runs == Strike([i \in 1..Len(s) |-> IF follows(i) THEN 0 - 1 ELSE s[i]])
    IN  [i \in 1..Len(runs) |-> IF IsSpace(runs[i]) THEN 32 ELSE runs[i]]

cleanText(text) == trim(CollapseSpaces(RemoveMarkup(RemoveUrls(text))))

speechText(text) == slice(cleanText(text), SpeechLimit)

\* the audio data the service returns for a narrated text
Clip(spoken) == [voiceName |-> "Fenrir", spoken |-> spoken]

\* the texts given to generateNewsAudio: a hundred '#' followed by "b", by
\* "c" and by "*"; "https://x *"; 99 'a' followed by U+1F600; U+1F600 "!";
\* " hi "
Texts ==
    {Rep(35, KeyPrefix) \o <<98>>,
     Rep(35, KeyPrefix) \o <<99>>,
     Rep(35, KeyPrefix) \o <<42>>,
     Https \o <<120, 32, 42>>,
     Rep(97, KeyPrefix - 1) \o <<55357, 56832>>,
     <<55357, 56832, 33>>,
     <<32, 104, 105, 32>>}

\* the cache keys of the texts that have one
AudioKeys == {cacheKey(t)[1] : t \in {x \in Texts : cacheKey(x) # None}}

(***************************************************************************)
(* generateId.  A 32-bit integer is the pair <<high, low>> of the 16-bit   *)
(* halves of its two's-complement pattern.                                 *)
(***************************************************************************)
\* longest argument of generateId in SpecId
MaxIdLen == 6

Half == 65536

\* hash << 5
Shl5(h) == <<(h[1] * 32 + ((h[2] * 32) \div Half)) % Half, (h[2] * 32) % Half>>

\* x - y, wrapped
Minus(x, y) ==
    LET borrow == IF x[2] < y[2] THEN 1 ELSE 0
    IN  <<(x[1] - y[1] - borrow + 2 * Half) % Half, (x[2] - y[2] + Half) % Half>>

\* x + char, wrapped
Plus(x, char) ==
    <<(x[1] + ((x[2] + char) \div Half)) % Half, (x[2] + char) % Half>>

\* faulty variant: the shift is by four bits
hashStep_Shift4(hash, char) ==
    Plus(Minus(<<(hash[1] * 16 + ((hash[2] * 16) \div Half)) % Half,
                 (hash[2] * 16) % Half>>, hash), char)

\* hash = (hash << 5) - hash + char; hash |= 0
hashStep(hash, char) == Plus(Minus(Shl5(hash), hash), char)

\* the loop over str.charCodeAt(i)
RECURSIVE hashLoop(_, _)
hashLoop(hash, s) ==
    IF s = <<>> THEN hash ELSE hashLoop(hashStep(hash, Head(s)), Tail(s))

\* Math.abs(hash), as a magnitude (2^31 for the most negative hash)
Math_abs(hash) == IF hash[1] >= Half \div 2 THEN Minus(<<0, 0>>, hash) ELSE hash

\* the character of a base-36 digit
Digit36(d) == IF d < 10 THEN 48 + d ELSE 87 + d

\* the quotient of a magnitude by 36
Div36(m) == <<m[1] \div 36, ((m[1] % 36) * Half + m[2]) \div 36>>

Mod36(m) == ((m[1] % 36) * Half + m[2]) % 36

\* Number.prototype.toString(36)
RECURSIVE toString36(_)
toString36(m) ==
    IF m[1] = 0 /\ m[2] < 36 THEN <<Digit36(m[2])>>
    ELSE toString36(Div36(m)) \o <<Digit36(Mod36(m))>>

\* 'rss_' + Math.abs(hash).toString(36)
generateId(s) == <<114, 115, 115, 95>> \o toString36(Math_abs(hashLoop(<<0, 0>>, s)))

\* the arguments of generateId: strings over '/', 'h' and U+FFFF
IdStrings == UNION {[1..n -> {47, 104, 65535}] : n \in 0..MaxIdLen}

(***************************************************************************)
(* State.                                                                  *)
(***************************************************************************)
VARIABLES
    now,             \* Date.now(), in milliseconds
    ticks,           \* how often the clock has advanced
    configured,      \* isSupabaseConfigured()
    malformed,       \* feeds whose URL makes encodeURIComponent throw
    rss_feed_cache,  \* remote table: category -> optional row
    localStorage,    \* local store: category -> optional JSON text
    upserts,         \* remote upserts issued and not yet settled
    calls,           \* the calls of fetchNewsForCategory, by slot
    started,         \* how many calls have been started
    persisted,       \* per category, the batch last given to setItem
    batch,           \* SpecDedup: the input of the deduplicator
    deduped,         \* SpecDedup: its output, once applied
    apiKey,          \* getAI() yields a client
    articleMemoryCache,  \* in-process map: article id -> optional content
    ai_articles_cache,   \* remote table: article id -> optional content
    articleUpserts,  \* upserts to ai_articles_cache issued and not settled
    enhanceCalls,    \* the calls of enhanceArticle, by slot
    invoked,         \* per article id, the generateContent requests made
    genFailed,       \* per article id, those of them that yielded no content
    audioMemoryCache,    \* in-process map: cache key -> optional clip
    ai_audio_cache,  \* remote table: text_hash -> optional clip
    audioUpserts,    \* upserts to ai_audio_cache issued and not settled
    audioCalls,      \* the calls of generateNewsAudio, by slot
    geminiStarted,   \* how many calls of the two operations have been started
    str,             \* SpecId: the argument of generateId
    id,              \* SpecId: its result, once applied
    gallery_posts,   \* remote table: the rows, in insertion order
    telegram_posts,  \* remote table: the rows, in insertion order
    tableCalls,      \* the calls that consume the two tables, by slot
    tableStarted     \* how many of them have been started

newsVars == <<now, ticks, configured, malformed, rss_feed_cache, localStorage,
              upserts, calls, started, persisted>>

dedupVars == <<batch, deduped>>

geminiVars == <<apiKey, articleMemoryCache, ai_articles_cache, articleUpserts,
                enhanceCalls, invoked, genFailed, audioMemoryCache,
                ai_audio_cache, audioUpserts, audioCalls, geminiStarted>>

idVars == <<str, id>>

tableVars == <<gallery_posts, telegram_posts, tableCalls, tableStarted>>

\* what fetchNewsForCategory on an RSS category never touches
others == <<geminiVars, idVars, tableVars>>

vars == <<newsVars, dedupVars, geminiVars, idVars, tableVars>>

Calls == 1..MaxActive

IdleCall ==
    [pc |-> "idle", category |-> "X",
     supabaseStaleData |-> <<>>, localStaleData |-> <<>>,
     fan |-> <<>>, ret |-> <<>>, path |-> "none",
     atCall |-> [remote |-> None, local |-> None, time |-> 0],
     remoteRead |-> None, localAtRead |-> None, readAt |-> 0,
     wrote |-> None, upserted |-> 0]

\* The remote table outlives the session and is shared between sessions:
\* it may hold a row that an earlier session upserted at time 0.
EarlierSession ==
    [cat \in Category |->
        CASE cat = "X" -> Some([articles |-> <<a2>>,
                                 updated_at |-> toISOString(0)])
          [] cat = "Y" -> Some([articles |-> <<c2>>,
                                 updated_at |-> toISOString(0)])
          [] OTHER     -> None]

enhanceVars == <<articleMemoryCache, ai_articles_cache, articleUpserts,
                 enhanceCalls, invoked, genFailed>>

audioVars == <<audioMemoryCache, ai_audio_cache, audioUpserts, audioCalls>>

EnhanceSlots == 1..MaxEnhanceActive

IdleEnhance ==
    [pc |-> "idle", id |-> "rss_1", description |-> "d1", ret |-> None,
     path |-> "none", readFailed |-> FALSE, failedBefore |-> 0]

EnhanceIdle ==
    /\ articleMemoryCache = [a \in ArticleIds |-> None]
    /\ ai_articles_cache = [a \in ArticleIds |-> None]
    /\ articleUpserts = {}
    /\ enhanceCalls = [c \in EnhanceSlots |-> IdleEnhance]
    /\ invoked = [a \in ArticleIds |-> 0]
    /\ genFailed = [a \in ArticleIds |-> 0]

AudioSlots == 1..MaxAudioActive

IdleAudio ==
    [pc |-> "idle", text |-> <<>>, key |-> None, ret |-> None,
     path |-> "none", error |-> "none"]

AudioIdle ==
    /\ audioMemoryCache = [k \in AudioKeys |-> None]
    /\ ai_audio_cache = [k \in AudioKeys |-> None]
    /\ audioUpserts = {}
    /\ audioCalls = [c \in AudioSlots |-> IdleAudio]

GeminiIdle ==
    /\ apiKey = TRUE
    /\ geminiStarted = 0
    /\ EnhanceIdle
    /\ AudioIdle

IdIdle ==
    /\ str = <<>>
    /\ id = None

\* number of call slots of the operations on gallery_posts and telegram_posts
MaxTableActive == 1
\* number of calls of these operations in one behaviour
MaxTableCalls == 3

TableSlots == 1..MaxTableActive

IdleTable ==
    [pc |-> "idle", op |-> "none", post |-> None, ret |-> None,
     error |-> "none"]

TablesIdle ==
    /\ gallery_posts = <<>>
    /\ telegram_posts = <<>>
    /\ tableCalls = [c \in TableSlots |-> IdleTable]
    /\ tableStarted = 0

\* The table may also hold a row whose article list is empty (written by
\* another client of the table).
EmptyRowSession ==
    [cat \in Category |->
        IF cat = "X"
        THEN Some([articles |-> <<>>, updated_at |-> toISOString(0)])
        ELSE None]

Init ==
    /\ now = 0
    /\ ticks = 0
    /\ configured \in BOOLEAN
    /\ malformed \in {{}, {"B"}}
    /\ rss_feed_cache \in
          IF configured
          THEN {[cat \in Category |-> None], EarlierSession, EmptyRowSession}
          ELSE {[cat \in Category |-> None]}
    /\ localStorage = [cat \in Category |-> None]
    /\ upserts = {}
    /\ calls = [c \in Calls |-> IdleCall]
    /\ started = 0
    /\ persisted = [cat \in Category |-> None]
    /\ batch = <<>>
    /\ deduped = None
    /\ GeminiIdle
    /\ IdIdle
    /\ TablesIdle

(***************************************************************************)
(* fetchNewsForCategory, RSS categories.  Each action is one turn of the   *)
(* event loop: it runs the call from the event that resumes it up to its   *)
(* next suspension or its return.                                          *)
(***************************************************************************)
Return(rec, articles, path) ==
    [rec EXCEPT !.pc = "done", !.ret = articles, !.path = path]

\* what the local store holds for a category, parsed
LocalEntry(cat) ==
    IF localStorage[cat] = None THEN None
    ELSE Some(JSON_parse(localStorage[cat][1]))

\* faulty variant: a row is returned whatever its age
ReadRemote_IgnoresAge(rec, row) ==
    LET seen == [rec EXCEPT !.remoteRead = row, !.readAt = now,
                            !.localAtRead = LocalEntry(rec.category)]
    IN  IF row # None /\ Len(row[1].articles) > 0
        THEN Return(seen, row[1].articles, "remote")
        ELSE seen

\* 1. Supabase RSS cache: what the call does with the answer of the select
\* (remoteRead, localAtRead and readAt record what the tiers held in this turn)
ReadRemote(rec, row) ==
    LET seen == [rec EXCEPT !.remoteRead = row, !.readAt = now,
                            !.localAtRead = LocalEntry(rec.category)]
    IN  IF row # None /\ Len(row[1].articles) > 0
        THEN IF isFresh(getTime(row[1].updated_at), now)
             THEN Return(seen, row[1].articles, "remote")
             ELSE [seen EXCEPT !.supabaseStaleData = row[1].articles]
        ELSE seen

\* 2. local storage cache
ReadLocal(rec) ==
    LET cachedData == localStorage[rec.category]
    IN  IF cachedData = None
        THEN [rec EXCEPT !.readAt = now, !.localAtRead = None]
        ELSE LET parsed == JSON_parse(cachedData[1])
                 seen == [rec EXCEPT !.localAtRead = Some(parsed),
                                     !.readAt = now]
             IN  IF isFresh(parsed.timestamp, now)
                 THEN Return(seen, parsed.articles, "local")
                 ELSE [seen EXCEPT !.localStaleData = parsed.articles]

\* the state of one feed's fan-out
FeedRejected ==
    [st |-> "rejected", relay |-> 0, failed |-> {}, items |-> <<>>,
     timer |-> FALSE, rank |-> 0]

FeedRequest(k, failed) ==
    [st |-> "headers", relay |-> k, failed |-> failed, items |-> <<>>,
     timer |-> TRUE, rank |-> 0]

\* 3. live fetch: feedUrls.map(async (url) => ...) up to the first await
StartLive(rec) ==
    LET feedUrls == RSS_FEEDS[rec.category]
    IN  IF Len(feedUrls) = 0 THEN Return(rec, <<>>, "nofeeds")
        ELSE [rec EXCEPT
                !.pc = "await",
                !.fan = [i \in 1..Len(feedUrls) |->
                            IF feedUrls[i] \in malformed
                            THEN FeedRejected
                            ELSE FeedRequest(1, {})]]

LocalAndLive(rec) ==
    LET r == ReadLocal(rec)
    IN  IF r.pc = "done" THEN r ELSE StartLive(r)

\* faulty variant: the local stale batch is preferred to the remote one
Fallback_LocalFirst(rec) ==
    IF Len(rec.localStaleData) > 0
    THEN Return(rec, rec.localStaleData, "stale")
    ELSE IF Len(rec.supabaseStaleData) > 0
    THEN Return(rec, rec.supabaseStaleData, "stale")
    ELSE Return(rec, <<>>, "empty")

\* 4. fallback (stale)
Fallback(rec) ==
    IF Len(rec.supabaseStaleData) > 0
    THEN Return(rec, rec.supabaseStaleData, "stale")
    ELSE IF Len(rec.localStaleData) > 0
    THEN Return(rec, rec.localStaleData, "stale")
    ELSE Return(rec, <<>>, "empty")

AnyRejected(fan) == \E i \in 1..Len(fan) : fan[i].st = "rejected"
AllResolved(fan) == \A i \in 1..Len(fan) : fan[i].st = "resolved"

\* faulty variant: the results are taken in the order the fan-outs resolved
Results_ByCompletion(fan) ==
    IF AllResolved(fan)
    THEN [i \in 1..Len(fan) |->
             fan[CHOOSE j \in 1..Len(fan) : fan[j].rank = i].items]
    ELSE [i \in 1..Len(fan) |-> fan[i].items]

\* Promise.all resolves to the results in the order of fetchPromises
Results(fan) == [i \in 1..Len(fan) |-> fan[i].items]

Upsert(cat, articles) ==
    [category |-> cat, articles |-> articles, updated_at |-> toISOString(now)]

\* The rest of the turn: the continuation of await Promise.all(fetchPromises)
\* when the barrier settles, else the call stays as it is.
Conclude(c, rec, setItemThrows) ==
    LET unique == uniqueArticles(Flat(Results(rec.fan)))
        quiet == UNCHANGED <<localStorage, upserts, persisted>>
    IN  IF rec.pc # "await"
        THEN calls' = [calls EXCEPT ![c] = rec] /\ quiet
        ELSE IF AnyRejected(rec.fan)
        THEN calls' = [calls EXCEPT ![c] = Fallback(rec)] /\ quiet
        ELSE IF ~AllResolved(rec.fan)
        THEN calls' = [calls EXCEPT ![c] = rec] /\ quiet
        ELSE IF Len(unique) = 0
        THEN calls' = [calls EXCEPT ![c] = Fallback(rec)] /\ quiet
        ELSE IF setItemThrows
        THEN calls' = [calls EXCEPT ![c] = Fallback(rec)] /\ quiet
        ELSE /\ localStorage' =
                  [localStorage EXCEPT ![rec.category] =
                      Some(JSON_stringify([timestamp |-> now,
                                           articles |-> unique]))]
             /\ persisted' = [persisted EXCEPT ![rec.category] = Some(unique)]
             /\ upserts' = IF configured
                           THEN upserts \cup {Upsert(rec.category, unique)}
                           ELSE upserts
             /\ calls' = [calls EXCEPT ![c] =
                            Return([rec EXCEPT
                                      !.wrote = Some(unique),
                                      !.upserted = IF configured THEN 1 ELSE 0],
                                   unique, "live")]

frame == UNCHANGED <<now, ticks, configured, malformed, rss_feed_cache,
                     batch, deduped, others>>

\* slot c holds no call, or a call that has returned and left no fan-out
\* running
Free(c) ==
    /\ calls[c].pc \in {"idle", "done"}
    /\ \A i \in DOMAIN calls[c].fan :
           calls[c].fan[i].st \notin {"headers", "body"}

\* fetchNewsForCategory(cat) is called (atCall records what the tiers hold)
Call(c, cat) ==
    /\ Free(c)
    /\ \A other \in Calls : other < c => ~Free(other)
    /\ started < MaxCalls
    /\ started' = started + 1
    /\ LET rec == [IdleCall EXCEPT
                     !.category = cat,
                     !.atCall = [remote |-> rss_feed_cache[cat],
                                 local  |-> LocalEntry(cat),
                                 time   |-> now]]
       IN  IF configured
           THEN /\ calls' = [calls EXCEPT ![c] = [rec EXCEPT !.pc = "remote"]]
                /\ UNCHANGED <<localStorage, upserts, persisted>>
           ELSE \E setItemThrows \in BOOLEAN :
                    Conclude(c, LocalAndLive(rec), setItemThrows)
    /\ frame

\* the select on rss_feed_cache answers with the row, or with no row
RemoteReadOk(c) ==
    /\ calls[c].pc = "remote"
    /\ LET r == ReadRemote(calls[c], rss_feed_cache[calls[c].category])
       IN  \E setItemThrows \in BOOLEAN :
               Conclude(c, IF r.pc = "done" THEN r ELSE LocalAndLive(r),
                        setItemThrows)
    /\ UNCHANGED started
    /\ frame

\* the select fails (error in the answer, or the await throws)
RemoteReadFails(c) ==
    /\ calls[c].pc = "remote"
    /\ \E setItemThrows \in BOOLEAN :
           Conclude(c, LocalAndLive(calls[c]), setItemThrows)
    /\ UNCHANGED started
    /\ frame


(***************************************************************************)
(* The fan-out of one feed: for (const proxy of proxies) { try { ... } }   *)
(***************************************************************************)
FeedIndex == UNION {DOMAIN RSS_FEEDS[cat] : cat \in Category}

\* faulty variant: the first failure ends the fan-out
NextProxy_GivesUp(f) ==
    [st |-> "resolved", relay |-> f.relay,
     failed |-> f.failed \cup {f.relay}, items |-> <<>>, timer |-> FALSE, rank |-> 0]

\* faulty variant: a proxy is skipped
NextProxy_SkipsOne(f) ==
    IF f.relay + 1 < NumProxies
    THEN FeedRequest(f.relay + 2, f.failed \cup {f.relay})
    ELSE [st |-> "resolved", relay |-> f.relay,
          failed |-> f.failed \cup {f.relay}, items |-> <<>>,
          timer |-> FALSE, rank |-> 0]

\* the catch block and the three continue statements: next proxy, or
\* return [] after the last one
NextProxy(f) ==
    IF f.relay < NumProxies
    THEN FeedRequest(f.relay + 1, f.failed \cup {f.relay})
    ELSE [st |-> "resolved", relay |-> f.relay,
          failed |-> f.failed \cup {f.relay}, items |-> <<>>,
          timer |-> FALSE, rank |-> 0]

\* the return of the mapped items
FeedDone(f, items) ==
    [st |-> "resolved", relay |-> f.relay, failed |-> f.failed,
     items |-> items, timer |-> FALSE, rank |-> 0]

\* the fan-out of feed i of call c is suspended in st
Waiting(c, i, st) ==
    /\ calls[c].pc \in {"await", "done"}
    /\ i \in DOMAIN calls[c].fan
    /\ calls[c].fan[i].st = st

\* (rank records the order in which the fan-outs of a call resolve)
FeedStep(c, i, f) ==
    /\ LET resolved == {j \in DOMAIN calls[c].fan :
                            calls[c].fan[j].st = "resolved"}
           g == IF f.st = "resolved"
                THEN [f EXCEPT !.rank = Cardinality(resolved) + 1]
                ELSE f
       IN  \E setItemThrows \in BOOLEAN :
               Conclude(c, [calls[c] EXCEPT !.fan[i] = g], setItemThrows)
    /\ UNCHANGED started
    /\ frame

\* fetch rejects: network error
FetchRejects(c, i) ==
    /\ Waiting(c, i, "headers")
    /\ FeedStep(c, i, NextProxy(calls[c].fan[i]))

\* the 6000 ms timer fires, controller.abort() makes fetch reject
AbortTimeout(c, i) ==
    /\ Waiting(c, i, "headers")
    /\ calls[c].fan[i].timer
    /\ FeedStep(c, i, NextProxy(calls[c].fan[i]))

\* fetch resolves with a response that is not ok
BadStatus(c, i) ==
    /\ Waiting(c, i, "headers")
    /\ FeedStep(c, i, NextProxy(calls[c].fan[i]))

\* fetch resolves with an ok response: clearTimeout, then the body is awaited
ResponseOk(c, i) ==
    /\ Waiting(c, i, "headers")
    /\ FeedStep(c, i, [calls[c].fan[i] EXCEPT !.st = "body", !.timer = FALSE])

\* response.json() or response.text() rejects
BodyFails(c, i) ==
    /\ Waiting(c, i, "body")
    /\ FeedStep(c, i, NextProxy(calls[c].fan[i]))

\* the body arrives, rssContent is empty or missing
EmptyContent(c, i) ==
    /\ Waiting(c, i, "body")
    /\ FeedStep(c, i, NextProxy(calls[c].fan[i]))

\* the body arrives, the document holds a parsererror
ParserError(c, i) ==
    /\ Waiting(c, i, "body")
    /\ FeedStep(c, i, NextProxy(calls[c].fan[i]))

\* the body arrives, the document holds no item
NoItems(c, i) ==
    /\ Waiting(c, i, "body")
    /\ FeedStep(c, i, NextProxy(calls[c].fan[i]))

\* the body arrives and parses into at least one item
ItemsParsed(c, i) ==
    /\ Waiting(c, i, "body")
    /\ \E items \in FeedItems[RSS_FEEDS[calls[c].category][i]] :
           FeedStep(c, i, FeedDone(calls[c].fan[i], items))

(***************************************************************************)
(* The environment: the clock and the remote table.                        *)
(***************************************************************************)
\* the clock advances by half a freshness window at a time
Steps == {CACHE_DURATION \div 2}

Tick(d) ==
    /\ ticks < MaxTicks
    /\ ticks' = ticks + 1
    /\ now' = now + d
    /\ UNCHANGED <<configured, malformed, rss_feed_cache, localStorage,
                   upserts, calls, started, persisted, batch, deduped, others>>

\* a fire-and-forget upsert reaches the table
UpsertApplied(u) ==
    /\ u \in upserts
    /\ upserts' = upserts \ {u}
    /\ rss_feed_cache' =
          [rss_feed_cache EXCEPT ![u.category] =
              Some([articles |-> u.articles, updated_at |-> u.updated_at])]
    /\ UNCHANGED <<now, ticks, configured, malformed, localStorage, calls,
                   started, persisted, batch, deduped, others>>

\* faulty variant: the failure of the upsert reaches the call that issued it
UpsertFails_Surfaces(u) ==
    /\ u \in upserts
    /\ upserts' = upserts \ {u}
    /\ calls' = [c \in Calls |->
                    IF calls[c].category = u.category /\ calls[c].path = "live"
                    THEN Fallback(calls[c]) ELSE calls[c]]
    /\ UNCHANGED <<now, ticks, configured, malformed, rss_feed_cache,
                   localStorage, started, persisted, batch, deduped, others>>

\* a fire-and-forget upsert fails: the error is logged
UpsertFails(u) ==
    /\ u \in upserts
    /\ upserts' = upserts \ {u}
    /\ UNCHANGED <<now, ticks, configured, malformed, rss_feed_cache,
                   localStorage, calls, started, persisted, batch, deduped,
                   others>>

Next ==
    \/ \E c \in Calls, cat \in Category : Call(c, cat)
    \/ \E c \in Calls : RemoteReadOk(c)
    \/ \E c \in Calls : RemoteReadFails(c)
    \/ \E c \in Calls, i \in FeedIndex : FetchRejects(c, i)
    \/ \E c \in Calls, i \in FeedIndex : AbortTimeout(c, i)
    \/ \E c \in Calls, i \in FeedIndex : BadStatus(c, i)
    \/ \E c \in Calls, i \in FeedIndex : ResponseOk(c, i)
    \/ \E c \in Calls, i \in FeedIndex : BodyFails(c, i)
    \/ \E c \in Calls, i \in FeedIndex : EmptyContent(c, i)
    \/ \E c \in Calls, i \in FeedIndex : ParserError(c, i)
    \/ \E c \in Calls, i \in FeedIndex : NoItems(c, i)
    \/ \E c \in Calls, i \in FeedIndex : ItemsParsed(c, i)
    \/ \E d \in Steps : Tick(d)
    \/ \E u \in upserts : UpsertApplied(u)
    \/ \E u \in upserts : UpsertFails(u)

Spec == Init /\ [][Next]_vars

\* The timers of the event loop fire, and the select on the remote table is
\* answered; a relay is free never to answer.
FairSpec ==
    /\ Spec
    /\ \A c \in Calls : WF_vars(RemoteReadOk(c) \/ RemoteReadFails(c))
    /\ \A c \in Calls, i \in FeedIndex : WF_vars(AbortTimeout(c, i))


(***************************************************************************)
(* SpecDedup: the deduplicator on every batch of at most MaxBatch articles *)
(* of the pool.                                                            *)
(***************************************************************************)
ArticlePool == {a1, a2, b1, b2, c1, c2, c3, c4}

Batches == UNION {[1..n -> ArticlePool] : n \in 0..MaxBatch}

InitDedup ==
    /\ now = 0
    /\ ticks = 0
    /\ configured = FALSE
    /\ malformed = {}
    /\ rss_feed_cache = [cat \in Category |-> None]
    /\ localStorage = [cat \in Category |-> None]
    /\ upserts = {}
    /\ calls = [c \in Calls |-> IdleCall]
    /\ started = 0
    /\ persisted = [cat \in Category |-> None]
    /\ batch \in Batches
    /\ deduped = None
    /\ GeminiIdle
    /\ IdIdle
    /\ TablesIdle

\* allArticles.filter(...) over the flattened results
Dedupe ==
    /\ deduped = None
    /\ deduped' = Some(uniqueArticles(batch))
    /\ UNCHANGED <<now, ticks, configured, malformed, rss_feed_cache,
                   localStorage, upserts, calls, started, persisted, batch,
                   others>>

NextDedup == Dedupe

SpecDedup == InitDedup /\ [][NextDedup]_vars

(***************************************************************************)
(* enhanceArticle.  Each action is one turn of the event loop.             *)
(***************************************************************************)
\* the state of fetchNewsForCategory and of the deduplicator, at rest
NewsIdle ==
    /\ now = 0
    /\ ticks = 0
    /\ malformed = {}
    /\ rss_feed_cache = [cat \in Category |-> None]
    /\ localStorage = [cat \in Category |-> None]
    /\ upserts = {}
    /\ calls = [c \in Calls |-> IdleCall]
    /\ started = 0
    /\ persisted = [cat \in Category |-> None]
    /\ batch = <<>>
    /\ deduped = None

\* a row that another session upserted to ai_articles_cache
OtherSessionArticles ==
    [a \in ArticleIds |-> IF a = "rss_1" THEN Some(Content("w2")) ELSE None]

InitEnhance ==
    /\ NewsIdle
    /\ configured \in BOOLEAN
    /\ apiKey \in BOOLEAN
    /\ geminiStarted = 0
    /\ articleMemoryCache = [a \in ArticleIds |-> None]
    /\ ai_articles_cache \in
          IF configured
          THEN {[a \in ArticleIds |-> None], OtherSessionArticles}
          ELSE {[a \in ArticleIds |-> None]}
    /\ articleUpserts = {}
    /\ enhanceCalls = [c \in EnhanceSlots |-> IdleEnhance]
    /\ invoked = [a \in ArticleIds |-> 0]
    /\ genFailed = [a \in ArticleIds |-> 0]
    /\ AudioIdle
    /\ IdIdle
    /\ TablesIdle

enhanceFrame ==
    UNCHANGED <<newsVars, dedupVars, apiKey, audioVars, idVars, tableVars>>

ReturnContent(rec, content, path) ==
    [rec EXCEPT !.pc = "done", !.ret = Some(content), !.path = path]

\* 3. generate: without a client the try block throws before the request and
\* the fallback is returned in the same turn; else the request is made
ToGeneration(c, rec) ==
    IF apiKey
    THEN /\ enhanceCalls' =
              [enhanceCalls EXCEPT ![c] = [rec EXCEPT !.pc = "generate"]]
         /\ invoked' = [invoked EXCEPT ![rec.id] = @ + 1]
    ELSE /\ enhanceCalls' =
              [enhanceCalls EXCEPT ![c] =
                  ReturnContent(rec, Degraded(rec.description), "degraded")]
         /\ UNCHANGED invoked

\* enhanceArticle(id, title, description) is called: 1. memory cache
\* (failedBefore records how many calls for the identifier had fallen back
\* after a failed generation)
EnhanceArticle(c, a, description) ==
    /\ enhanceCalls[c].pc \in {"idle", "done"}
    /\ \A other \in EnhanceSlots :
           other < c => enhanceCalls[other].pc \notin {"idle", "done"}
    /\ geminiStarted < MaxGeminiCalls
    /\ geminiStarted' = geminiStarted + 1
    /\ LET rec == [IdleEnhance EXCEPT !.id = a, !.description = description,
                                      !.failedBefore = genFailed[a]]
       IN  IF articleMemoryCache[a] # None
           THEN /\ enhanceCalls' =
                     [enhanceCalls EXCEPT ![c] =
                         ReturnContent(rec, articleMemoryCache[a][1], "memory")]
                /\ UNCHANGED invoked
           ELSE IF configured
           THEN /\ enhanceCalls' =
                     [enhanceCalls EXCEPT ![c] = [rec EXCEPT !.pc = "remote"]]
                /\ UNCHANGED invoked
           ELSE ToGeneration(c, rec)
    /\ UNCHANGED <<articleMemoryCache, ai_articles_cache, articleUpserts,
                   genFailed>>
    /\ enhanceFrame

\* faulty variant: a row that was read is returned but not kept in memory
ArticleReadOk_NotKept(c) ==
    /\ enhanceCalls[c].pc = "remote"
    /\ LET rec == enhanceCalls[c]
           row == ai_articles_cache[rec.id]
       IN  IF row # None
           THEN /\ enhanceCalls' =
                     [enhanceCalls EXCEPT ![c] =
                         ReturnContent(rec, row[1], "remote")]
                /\ UNCHANGED invoked
           ELSE ToGeneration(c, rec)
    /\ UNCHANGED <<articleMemoryCache, ai_articles_cache, articleUpserts,
                   genFailed, geminiStarted>>
    /\ enhanceFrame

\* 2. the select on ai_articles_cache answers: with the row, or with the
\* error of single() when there is none
ArticleReadOk(c) ==
    /\ enhanceCalls[c].pc = "remote"
    /\ LET rec == enhanceCalls[c]
           row == ai_articles_cache[rec.id]
       IN  IF row # None
           THEN /\ articleMemoryCache' =
                     [articleMemoryCache EXCEPT ![rec.id] = row]
                /\ enhanceCalls' =
                     [enhanceCalls EXCEPT ![c] =
                         ReturnContent(rec, row[1], "remote")]
                /\ UNCHANGED invoked
           ELSE /\ ToGeneration(c, rec)
                /\ UNCHANGED articleMemoryCache
    /\ UNCHANGED <<ai_articles_cache, articleUpserts, genFailed, geminiStarted>>
    /\ enhanceFrame

\* the select fails (the await throws, or the answer carries an error)
ArticleReadFails(c) ==
    /\ enhanceCalls[c].pc = "remote"
    /\ ToGeneration(c, [enhanceCalls[c] EXCEPT !.readFailed = TRUE])
    /\ UNCHANGED <<articleMemoryCache, ai_articles_cache, articleUpserts,
                   genFailed, geminiStarted>>
    /\ enhanceFrame

\* 4. the service answers with text that parses to a content object
ContentGenerated(c, content) ==
    /\ enhanceCalls[c].pc = "generate"
    /\ LET rec == enhanceCalls[c]
       IN  /\ articleMemoryCache' =
                [articleMemoryCache EXCEPT ![rec.id] = Some(content)]
           /\ articleUpserts' =
                IF configured
                THEN articleUpserts \cup
                         {[article_id |-> rec.id, data |-> content]}
                ELSE articleUpserts
           /\ enhanceCalls' =
                [enhanceCalls EXCEPT ![c] =
                    ReturnContent(rec, content, "generated")]
    /\ UNCHANGED <<ai_articles_cache, invoked, genFailed, geminiStarted>>
    /\ enhanceFrame

\* faulty variant: the fallback object is cached like a generated one
GenerationFails_Cached(c, how) ==
    /\ enhanceCalls[c].pc = "generate"
    /\ LET rec == enhanceCalls[c]
       IN  /\ enhanceCalls' =
                [enhanceCalls EXCEPT ![c] =
                    ReturnContent(rec, Degraded(rec.description), "degraded")]
           /\ articleMemoryCache' =
                [articleMemoryCache EXCEPT ![rec.id] =
                    Some(Degraded(rec.description))]
           /\ genFailed' = [genFailed EXCEPT ![rec.id] = @ + 1]
    /\ UNCHANGED <<ai_articles_cache, articleUpserts, invoked, geminiStarted>>
    /\ enhanceFrame

\* the request yields no content: fallback
GenerationFails(c, how) ==
    /\ enhanceCalls[c].pc = "generate"
    /\ LET rec == enhanceCalls[c]
       IN  /\ enhanceCalls' =
                [enhanceCalls EXCEPT ![c] =
                    ReturnContent(rec, Degraded(rec.description), "degraded")]
           /\ genFailed' = [genFailed EXCEPT ![rec.id] = @ + 1]
    /\ UNCHANGED <<articleMemoryCache, ai_articles_cache, articleUpserts,
                   invoked, geminiStarted>>
    /\ enhanceFrame

\* a fire-and-forget upsert reaches ai_articles_cache
ArticleUpsertApplied(u) ==
    /\ u \in articleUpserts
    /\ articleUpserts' = articleUpserts \ {u}
    /\ ai_articles_cache' =
          [ai_articles_cache EXCEPT ![u.article_id] = Some(u.data)]
    /\ UNCHANGED <<articleMemoryCache, enhanceCalls, invoked, genFailed,
                   geminiStarted>>
    /\ enhanceFrame

\* a fire-and-forget upsert fails
ArticleUpsertFails(u) ==
    /\ u \in articleUpserts
    /\ articleUpserts' = articleUpserts \ {u}
    /\ UNCHANGED <<articleMemoryCache, ai_articles_cache, enhanceCalls,
                   invoked, genFailed, geminiStarted>>
    /\ enhanceFrame

NextEnhance ==
    \/ \E c \in EnhanceSlots, a \in ArticleIds, d \in Descriptions :
           EnhanceArticle(c, a, d)
    \/ \E c \in EnhanceSlots : ArticleReadOk(c)
    \/ \E c \in EnhanceSlots : ArticleReadFails(c)
    \/ \E c \in EnhanceSlots, w \in {"w1", "w2"} :
           ContentGenerated(c, Content(w))
    \/ \E c \in EnhanceSlots, how \in GenerationFailures :
           GenerationFails(c, how)
    \/ \E u \in articleUpserts : ArticleUpsertApplied(u)
    \/ \E u \in articleUpserts : ArticleUpsertFails(u)

SpecEnhance == InitEnhance /\ [][NextEnhance]_vars

(***************************************************************************)
(* generateNewsAudio.  Each action is one turn of the event loop.          *)
(***************************************************************************)
InitAudio ==
    /\ NewsIdle
    /\ configured \in BOOLEAN
    /\ apiKey \in BOOLEAN
    /\ geminiStarted = 0
    /\ EnhanceIdle
    /\ AudioIdle
    /\ IdIdle
    /\ TablesIdle

audioFrame ==
    UNCHANGED <<newsVars, dedupVars, apiKey, enhanceVars, idVars, tableVars>>

ReturnClip(rec, clip, path) ==
    [rec EXCEPT !.pc = "done", !.ret = Some(clip), !.path = path]

Raise(rec, error) == [rec EXCEPT !.pc = "raised", !.error = error]

\* after the cache tiers: the text is cleaned; an empty text raises; without
\* a client the try block throws before the request, base64Audio stays null
\* and the call raises in the same turn; else the request is made
AfterAudioCache(rec) ==
    IF cleanText(rec.text) = <<>>
    THEN Raise(rec, "Audio generation failed: Empty text")
    ELSE IF ~apiKey
    THEN Raise(rec, "TTS generation failed.")
    ELSE [rec EXCEPT !.pc = "generate"]

\* generateNewsAudio(text) is called: the cache key, then 1. memory cache
GenerateNewsAudio(c, text) ==
    /\ audioCalls[c].pc \in {"idle", "done", "raised"}
    /\ \A other \in AudioSlots :
           other < c => audioCalls[other].pc \notin {"idle", "done", "raised"}
    /\ geminiStarted < MaxGeminiCalls
    /\ geminiStarted' = geminiStarted + 1
    /\ LET key == cacheKey(text)
           rec == [IdleAudio EXCEPT !.text = text, !.key = key]
       IN  audioCalls' =
             [audioCalls EXCEPT ![c] =
                 IF key = None THEN Raise(rec, "URIError")
                 ELSE IF audioMemoryCache[key[1]] # None
                 THEN ReturnClip(rec, audioMemoryCache[key[1]][1], "memory")
                 ELSE IF configured THEN [rec EXCEPT !.pc = "remote"]
                 ELSE AfterAudioCache(rec)]
    /\ UNCHANGED <<audioMemoryCache, ai_audio_cache, audioUpserts>>
    /\ audioFrame

\* 2. the select on ai_audio_cache answers: with the row, or with the error
\* of single() when there is none
AudioReadOk(c) ==
    /\ audioCalls[c].pc = "remote"
    /\ LET rec == audioCalls[c]
           row == ai_audio_cache[rec.key[1]]
       IN  IF row # None
           THEN /\ audioMemoryCache' =
                     [audioMemoryCache EXCEPT ![rec.key[1]] = row]
                /\ audioCalls' =
                     [audioCalls EXCEPT ![c] = ReturnClip(rec, row[1], "remote")]
           ELSE /\ audioCalls' = [audioCalls EXCEPT ![c] = AfterAudioCache(rec)]
                /\ UNCHANGED audioMemoryCache
    /\ UNCHANGED <<ai_audio_cache, audioUpserts, geminiStarted>>
    /\ audioFrame

\* the select fails
AudioReadFails(c) ==
    /\ audioCalls[c].pc = "remote"
    /\ audioCalls' = [audioCalls EXCEPT ![c] = AfterAudioCache(audioCalls[c])]
    /\ UNCHANGED <<audioMemoryCache, ai_audio_cache, audioUpserts,
                   geminiStarted>>
    /\ audioFrame

\* the service answers with the audio of the narrated text
AudioGenerated(c) ==
    /\ audioCalls[c].pc = "generate"
    /\ LET rec == audioCalls[c]
           base64Audio == Clip(speechText(rec.text))
       IN  /\ audioMemoryCache' =
                [audioMemoryCache EXCEPT ![rec.key[1]] = Some(base64Audio)]
           /\ audioUpserts' =
                IF configured
                THEN audioUpserts \cup
                         {[text_hash |-> rec.key[1], audio_data |-> base64Audio]}
                ELSE audioUpserts
           /\ audioCalls' =
                [audioCalls EXCEPT ![c] =
                    ReturnClip(rec, base64Audio, "generated")]
    /\ UNCHANGED <<ai_audio_cache, geminiStarted>>
    /\ audioFrame

\* the request rejects, or the response carries no audio data
AudioGenerationFails(c) ==
    /\ audioCalls[c].pc = "generate"
    /\ audioCalls' =
          [audioCalls EXCEPT ![c] =
              Raise(audioCalls[c], "TTS generation failed.")]
    /\ UNCHANGED <<audioMemoryCache, ai_audio_cache, audioUpserts,
                   geminiStarted>>
    /\ audioFrame

\* a fire-and-forget upsert reaches ai_audio_cache
AudioUpsertApplied(u) ==
    /\ u \in audioUpserts
    /\ audioUpserts' = audioUpserts \ {u}
    /\ ai_audio_cache' =
          [ai_audio_cache EXCEPT ![u.text_hash] = Some(u.audio_data)]
    /\ UNCHANGED <<audioMemoryCache, audioCalls, geminiStarted>>
    /\ audioFrame

\* a fire-and-forget upsert fails
AudioUpsertFails(u) ==
    /\ u \in audioUpserts
    /\ audioUpserts' = audioUpserts \ {u}
    /\ UNCHANGED <<audioMemoryCache, ai_audio_cache, audioCalls, geminiStarted>>
    /\ audioFrame

NextAudio ==
    \/ \E c \in AudioSlots, text \in Texts : GenerateNewsAudio(c, text)
    \/ \E c \in AudioSlots : AudioReadOk(c)
    \/ \E c \in AudioSlots : AudioReadFails(c)
    \/ \E c \in AudioSlots : AudioGenerated(c)
    \/ \E c \in AudioSlots : AudioGenerationFails(c)
    \/ \E u \in audioUpserts : AudioUpsertApplied(u)
    \/ \E u \in audioUpserts : AudioUpsertFails(u)

SpecAudio == InitAudio /\ [][NextAudio]_vars

(***************************************************************************)
(* SpecId: generateId on every string of at most MaxIdLen characters.      *)
(***************************************************************************)
InitId ==
    /\ NewsIdle
    /\ configured = FALSE
    /\ GeminiIdle
    /\ str \in IdStrings
    /\ id = None
    /\ TablesIdle

ApplyGenerateId ==
    /\ id = None
    /\ id' = Some(generateId(str))
    /\ UNCHANGED <<newsVars, dedupVars, geminiVars, str, tableVars>>

NextId == ApplyGenerateId

SpecId == InitId /\ [][NextId]_vars

(***************************************************************************)
(* The operations on gallery_posts and telegram_posts: fetchGalleryPosts,  *)
(* addGalleryPost, fetchNewsForCategory(AZAD_STUDIO) and                   *)
(* fetchNewsForCategory(GALLERY).  A table is the sequence of its rows in  *)
(* insertion order, which is the order of created_at.                      *)
(***************************************************************************)
\* limit(50) and the longest title line kept whole
TelegramLimit == 50
TitleLimit == 60

\* the posts given to addGalleryPost (the second with an empty title and an
\* empty description)
Posts == {[title |-> "t1", description |-> "d1", media_url |-> "m1"],
          [title |-> "", description |-> "", media_url |-> "m2"]}

\* what telegram_posts can hold: messages "a\nb", "" and sixty-one 'a'
TelegramTables ==
    {<<>>,
     <<[id |-> 1, message |-> <<97, 10, 98>>, media_url |-> "m1"]>>,
     <<[id |-> 1, message |-> <<>>, media_url |-> "m1"],
       [id |-> 2, message |-> Rep(97, TitleLimit + 1), media_url |-> "m2"]>>}

InitTables ==
    /\ NewsIdle
    /\ configured \in BOOLEAN
    /\ GeminiIdle
    /\ IdIdle
    /\ gallery_posts = <<>>
    /\ telegram_posts \in TelegramTables
    /\ tableCalls = [c \in TableSlots |-> IdleTable]
    /\ tableStarted = 0

tableFrame == UNCHANGED <<newsVars, dedupVars, geminiVars, idVars>>

\* order('created_at', { ascending: false })
Descending(rows) == [i \in 1..Len(rows) |-> rows[Len(rows) + 1 - i]]

\* a row of gallery_posts mapped into the Article shape (without the
\* timestamp member, a locale rendering of created_at)
GalleryArticle(post) ==
    [id |-> <<"gal_", post.id>>,
     title |-> IF post.title = "" THEN "Gallery Post" ELSE post.title,
     source |-> "Azad Gallery",
     description |-> IF post.description = "" THEN "" ELSE post.description,
     category |-> "GALLERY",
     url |-> "#",
     imageUrl |-> post.media_url,
     descriptionRomanUrdu |-> post.description]

\* rawMsg.split('\n')[0]
TitleLine(rawMsg) ==
    LET breaks == {i \in 1..Len(rawMsg) : rawMsg[i] = 10}
    IN  IF breaks = {} THEN rawMsg
        ELSE SubSeq(rawMsg, 1, (CHOOSE i \in breaks : \A j \in breaks : i <= j) - 1)

\* a row of telegram_posts mapped into the Article shape (without the
\* timestamp member)
TelegramArticle(post) ==
    LET titleLine == TitleLine(post.message)
    IN  [id |-> <<"tg_", post.id>>,
         title |-> IF Len(titleLine) > TitleLimit
                   THEN SubSeq(titleLine, 1, TitleLimit) \o <<46, 46, 46>>
                   ELSE IF titleLine = <<>> THEN "Azad Studio Update"
                   ELSE titleLine,
         source |-> "Azad Studio Live",
         description |-> post.message,
         category |-> "AZAD_STUDIO",
         url |-> "#",
         imageUrl |-> post.media_url,
         descriptionRomanUrdu |-> post.message]

TableReturn(rec, value) == [rec EXCEPT !.pc = "done", !.ret = Some(value)]

TableRaise(rec, error) == [rec EXCEPT !.pc = "raised", !.error = error]

\* a call of one of the operations starts in the lowest free slot
TableCall(c) ==
    /\ tableCalls[c].pc \in {"idle", "done", "raised"}
    /\ \A other \in TableSlots :
           other < c => tableCalls[other].pc \notin {"idle", "done", "raised"}
    /\ tableStarted < MaxTableCalls
    /\ tableStarted' = tableStarted + 1

\* fetchGalleryPosts(), or fetchNewsForCategory(GALLERY) which returns it
FetchGalleryPosts(c, op) ==
    /\ TableCall(c)
    /\ LET rec == [IdleTable EXCEPT !.op = op]
       IN  tableCalls' =
             [tableCalls EXCEPT ![c] =
                 IF configured THEN [rec EXCEPT !.pc = "select"]
                 ELSE TableReturn(rec, <<>>)]
    /\ UNCHANGED <<gallery_posts, telegram_posts>>
    /\ tableFrame

\* fetchNewsForCategory(AZAD_STUDIO)
FetchAzadStudio(c) ==
    /\ TableCall(c)
    /\ LET rec == [IdleTable EXCEPT !.op = "AZAD_STUDIO"]
       IN  tableCalls' =
             [tableCalls EXCEPT ![c] =
                 IF configured THEN [rec EXCEPT !.pc = "select"]
                 ELSE TableReturn(rec, <<>>)]
    /\ UNCHANGED <<gallery_posts, telegram_posts>>
    /\ tableFrame

\* the select answers with the rows
SelectOk(c) ==
    /\ tableCalls[c].pc = "select"
    /\ LET rec == tableCalls[c]
           data == IF rec.op = "AZAD_STUDIO"
                   THEN slice(Descending(telegram_posts), TelegramLimit)
                   ELSE Descending(gallery_posts)
       IN  tableCalls' =
             [tableCalls EXCEPT ![c] =
                 TableReturn(rec,
                     [i \in 1..Len(data) |->
                         IF rec.op = "AZAD_STUDIO"
                         THEN TelegramArticle(data[i])
                         ELSE GalleryArticle(data[i])])]
    /\ UNCHANGED <<gallery_posts, telegram_posts, tableStarted>>
    /\ tableFrame

\* the select fails (error in the answer, or the await throws)
SelectFails(c) ==
    /\ tableCalls[c].pc = "select"
    /\ tableCalls' = [tableCalls EXCEPT ![c] = TableReturn(tableCalls[c], <<>>)]
    /\ UNCHANGED <<gallery_posts, telegram_posts, tableStarted>>
    /\ tableFrame

\* addGalleryPost(post)
AddGalleryPost(c, post) ==
    /\ TableCall(c)
    /\ LET rec == [IdleTable EXCEPT !.op = "addGalleryPost", !.post = Some(post)]
       IN  tableCalls' =
             [tableCalls EXCEPT ![c] =
                 IF configured THEN [rec EXCEPT !.pc = "insert"]
                 ELSE TableRaise(rec, "Database not connected")]
    /\ UNCHANGED <<gallery_posts, telegram_posts>>
    /\ tableFrame

\* the row that the insert of a post creates
InsertedRow(post) ==
    [id |-> Len(gallery_posts) + 1, title |-> post.title,
     description |-> post.description, media_url |-> post.media_url]

\* faulty variant: the insert replaces the rows of the table
InsertOk_Replaces(c) ==
    /\ tableCalls[c].pc = "insert"
    /\ LET row == InsertedRow(tableCalls[c].post[1])
       IN  /\ gallery_posts' = <<row>>
           /\ tableCalls' =
                [tableCalls EXCEPT ![c] = TableReturn(tableCalls[c], <<row>>)]
    /\ UNCHANGED <<telegram_posts, tableStarted>>
    /\ tableFrame

\* the insert succeeds: the new row is returned
InsertOk(c) ==
    /\ tableCalls[c].pc = "insert"
    /\ LET row == InsertedRow(tableCalls[c].post[1])
       IN  /\ gallery_posts' = Append(gallery_posts, row)
           /\ tableCalls' =
                [tableCalls EXCEPT ![c] = TableReturn(tableCalls[c], <<row>>)]
    /\ UNCHANGED <<telegram_posts, tableStarted>>
    /\ tableFrame

\* the insert fails: the error is thrown
InsertFails(c) ==
    /\ tableCalls[c].pc = "insert"
    /\ tableCalls' =
          [tableCalls EXCEPT ![c] = TableRaise(tableCalls[c], "insert error")]
    /\ UNCHANGED <<gallery_posts, telegram_posts, tableStarted>>
    /\ tableFrame

NextTables ==
    \/ \E c \in TableSlots, op \in {"fetchGalleryPosts", "GALLERY"} :
           FetchGalleryPosts(c, op)
    \/ \E c \in TableSlots : FetchAzadStudio(c)
    \/ \E c \in TableSlots : SelectOk(c)
    \/ \E c \in TableSlots : SelectFails(c)
    \/ \E c \in TableSlots, post \in Posts : AddGalleryPost(c, post)
    \/ \E c \in TableSlots : InsertOk(c)
    \/ \E c \in TableSlots : InsertFails(c)

SpecTables == InitTables /\ [][NextTables]_vars

(***************************************************************************)
(* Claims.                                                                 *)
(***************************************************************************)
Done(c) == calls[c].pc = "done"

\* the indexes of a batch whose normalized title occurs at no earlier index
FirstOccurrences(all) ==
    {i \in 1..Len(all) :
        \A j \in 1..(i - 1) : normalizedTitle(all[j]) # normalizedTitle(all[i])}

\* the k-th smallest element of a set of indexes
Kth(S, k) == CHOOSE i \in S : Cardinality({j \in S : j <= i}) = k

\* C7: the deduplicator returns the subsequence of its input that keeps, for
\* every normalized title, exactly the first article carrying it, in input
\* order; no two returned articles share a normalized title.
C7_FirstOccurrenceWins ==
    deduped # None =>
        LET out == deduped[1]
            keep == FirstOccurrences(batch)
        IN  /\ Len(out) = Cardinality(keep)
            /\ \A k \in 1..Len(out) : out[k] = batch[Kth(keep, k)]
            /\ \A k, l \in 1..Len(out) :
                   k # l => normalizedTitle(out[k]) # normalizedTitle(out[l])

\* a batch with "Hi!" before "h i" (same normalized title, different raw
\* titles) and a third title has been deduplicated to fewer articles
C7_Witness ==
    /\ deduped # None
    /\ \E i, j \in 1..Len(batch) : i < j /\ batch[i] = a1 /\ batch[j] = b1
    /\ Len(deduped[1]) >= 2
    /\ Len(deduped[1]) < Len(batch)


(***************************************************************************)
(* Claims about fetchNewsForCategory.                                      *)
(***************************************************************************)
\* an age below the freshness window
AgeBelow(timestamp, t) == t - timestamp < CACHE_DURATION

\* call record k issued no request to a relay
NoRelayRequest(k) == \A i \in DOMAIN k.fan : k.fan[i].relay = 0

\* the remote read of call record k answered with a usable row, fresh then
RemoteFreshAtRead(k) ==
    /\ k.remoteRead # None
    /\ Len(k.remoteRead[1].articles) > 0
    /\ AgeBelow(getTime(k.remoteRead[1].updated_at), k.readAt)

\* the local store held a fresh entry when call record k read its tiers
LocalFreshAtRead(k) ==
    /\ k.localAtRead # None
    /\ AgeBelow(k.localAtRead[1].timestamp, k.readAt)

RemoteFreshAtCall(k) ==
    /\ k.atCall.remote # None
    /\ AgeBelow(getTime(k.atCall.remote[1].updated_at), k.atCall.time)

LocalFreshAtCall(k) ==
    /\ k.atCall.local # None
    /\ AgeBelow(k.atCall.local[1].timestamp, k.atCall.time)

\* C1 as stated: if the remote row or the local entry of the category is
\* fresh when fetchNewsForCategory is called, the call returns exactly that
\* cached sequence and issues no request to a relay.
C1_FreshAtCallReturned ==
    \A c \in Calls :
        LET k == calls[c]
        IN  (k.pc # "idle" /\ (RemoteFreshAtCall(k) \/ LocalFreshAtCall(k))) =>
                /\ NoRelayRequest(k)
                /\ Done(c) =>
                       \/ /\ RemoteFreshAtCall(k)
                          /\ k.ret = k.atCall.remote[1].articles
                       \/ /\ LocalFreshAtCall(k)
                          /\ k.ret = k.atCall.local[1].articles

\* C1 amended: if the remote read succeeds with a non-empty row that is fresh
\* when the answer is processed, the call returns exactly that row's
\* articles; otherwise, if the local entry is fresh when it is read, the call
\* returns exactly that entry's articles; in both cases no relay is requested.
C1_FreshAtReadReturned ==
    \A c \in Calls :
        LET k == calls[c]
        IN  Done(c) =>
                /\ RemoteFreshAtRead(k) =>
                       k.ret = k.remoteRead[1].articles /\ NoRelayRequest(k)
                /\ (~RemoteFreshAtRead(k) /\ LocalFreshAtRead(k)) =>
                       k.ret = k.localAtRead[1].articles /\ NoRelayRequest(k)

\* a call read a stale remote row and returned the local entry, half a window
\* old
C1_Witness ==
    \E c \in Calls :
        /\ Done(c)
        /\ calls[c].remoteRead # None
        /\ ~RemoteFreshAtRead(calls[c])
        /\ LocalFreshAtRead(calls[c])
        /\ calls[c].readAt > calls[c].localAtRead[1].timestamp
        /\ Len(calls[c].ret) > 0

\* C2: a stale batch is returned only when the live fetch was attempted and
\* every feed of the category yielded no article.
C2_StaleOnlyAfterFailedLive ==
    \A c \in Calls :
        (Done(c) /\ calls[c].path = "stale") =>
            /\ calls[c].fan # <<>>
            /\ \A i \in DOMAIN calls[c].fan :
                   /\ calls[c].fan[i].st = "resolved"
                   /\ calls[c].fan[i].items = <<>>

FailureEvent(c, i) ==
    \/ FetchRejects(c, i)
    \/ AbortTimeout(c, i)
    \/ BadStatus(c, i)
    \/ BodyFails(c, i)
    \/ EmptyContent(c, i)
    \/ ParserError(c, i)
    \/ NoItems(c, i)

C3_Inv ==
    \A c \in Calls : \A i \in DOMAIN calls[c].fan :
        LET f == calls[c].fan[i]
        IN  /\ (f.st = "resolved" /\ f.items = <<>>) => f.failed = 1..NumProxies
            /\ f.st = "rejected" => f.relay = 0

C3_Step ==
    \A c \in Calls, i \in FeedIndex :
        FailureEvent(c, i) =>
            LET f == calls[c].fan[i]
                g == calls'[c].fan[i]
            IN  /\ g.st # "rejected"
                /\ g.failed = f.failed \cup {f.relay}
                /\ IF f.relay < NumProxies
                   THEN g.st = "headers" /\ g.relay = f.relay + 1
                   ELSE g.st = "resolved" /\ g.items = <<>>

\* C3: every failure of a relay (network error, abort, status, body, empty
\* content, parser error, no item) makes the fan-out request the next relay;
\* the feed yields the empty sequence only after all four relays failed, and
\* a fan-out that requested a relay never raises.
C3_RelayFailureAdvances == []C3_Inv /\ [][C3_Step]_vars

\* a feed has yielded the empty sequence
C3_Witness ==
    \E c \in Calls : \E i \in DOMAIN calls[c].fan :
        /\ calls[c].fan[i].st = "resolved"
        /\ calls[c].fan[i].items = <<>>
        /\ calls[c].fan[i].relay = NumProxies

C4_Inv ==
    \A c \in Calls : \A i \in DOMAIN calls[c].fan :
        LET f == calls[c].fan[i]
        IN  /\ f.st \in {"headers", "body"} =>
                   f.relay \in 1..NumProxies /\ f.failed = 1..(f.relay - 1)
            /\ (f.st = "resolved" /\ f.items # <<>>) =>
                   f.relay \in 1..NumProxies /\ f.failed = 1..(f.relay - 1)

C4_Step ==
    \A c \in Calls :
        started' = started =>
            \A i \in DOMAIN calls[c].fan :
                LET f == calls[c].fan[i]
                    g == calls'[c].fan[i]
                IN  /\ f.st = "resolved" => g = f
                    /\ g.relay # f.relay =>
                           g.relay = f.relay + 1 /\ f.relay \in g.failed
                    /\ ItemsParsed(c, i) =>
                           /\ g.st = "resolved"
                           /\ g.relay = f.relay
                           /\ g.items \in FeedItems[RSS_FEEDS[calls[c].category][i]]

\* C4: the relays of a feed are requested strictly in list order, relay k
\* only after relays 1..k-1 have each failed; once a relay yields content
\* with at least one item no later relay is requested and its items are the
\* feed's result.
C4_RelaysInOrder == []C4_Inv /\ [][C4_Step]_vars

\* the third relay yielded the items of a feed
C4_Witness ==
    \E c \in Calls : \E i \in DOMAIN calls[c].fan :
        /\ calls[c].fan[i].st = "resolved"
        /\ calls[c].fan[i].items # <<>>
        /\ calls[c].fan[i].relay = 3

\* C5: every relay attempt is bounded by the timeout, so every call that has
\* been made eventually returns.
C5_EveryCallReturns ==
    \A c \in Calls : (calls[c].pc \in {"remote", "await"}) ~> Done(c)

RECURSIVE ResolvedItems(_)
ResolvedItems(fan) ==
    IF fan = <<>> THEN <<>>
    ELSE (IF Head(fan).st = "resolved" THEN Head(fan).items ELSE <<>>)
         \o ResolvedItems(Tail(fan))

\* C6: if the fan-out of one feed throws, the articles of the other feeds
\* are still gathered, deduplicated and returned.
C6_OtherFeedsGathered ==
    \A c \in Calls :
        LET k == calls[c]
        IN  (/\ Done(c)
             /\ AnyRejected(k.fan)
             /\ \A i \in DOMAIN k.fan : k.fan[i].st \in {"resolved", "rejected"}
             /\ ResolvedItems(k.fan) # <<>>) =>
                k.ret = uniqueArticles(ResolvedItems(k.fan))

\* C8: for a category without a cache entry at any tier whose feeds all
\* succeed, the batch returned is the batch written to the local store, and
\* its length is the number of distinct normalized titles over all items.
C8_ReturnedIsWritten ==
    \A c \in Calls :
        LET k == calls[c]
            all == Flat(Results(k.fan))
        IN  (/\ Done(c)
             /\ k.atCall.remote = None /\ k.atCall.local = None
             /\ k.remoteRead = None /\ k.localAtRead = None
             /\ k.fan # <<>>
             /\ \A i \in DOMAIN k.fan :
                    k.fan[i].st = "resolved" /\ k.fan[i].items # <<>>) =>
                /\ k.wrote = Some(k.ret)
                /\ Len(k.ret) =
                       Cardinality({normalizedTitle(all[j]) : j \in 1..Len(all)})

\* C9: a call that reads the local entry within the freshness window, without
\* a fresh remote row, returns a sequence equal to the batch that the last
\* live fetch of the category persisted (the batch persisted when the call
\* returns: a later fetch may persist another one).
C9_Step ==
    \A c \in Calls :
        LET k == calls'[c]
        IN  (/\ k # calls[c]
             /\ k.pc = "done"
             /\ LocalFreshAtRead(k) /\ ~RemoteFreshAtRead(k)) =>
                /\ persisted[k.category] # None
                /\ k.ret = persisted[k.category][1]

C9_LocalRoundTrip == [][C9_Step]_vars

\* a call returned a persisted batch of two articles from the local store
C9_Witness ==
    \E c \in Calls :
        /\ Done(c)
        /\ calls[c].path = "local"
        /\ Len(calls[c].ret) >= 2
        /\ persisted[calls[c].category] = Some(calls[c].ret)

\* C10 as stated: a call that returns from cache with both tiers fresh
\* returns the batch with the more recent timestamp.
C10_MostRecentReturned ==
    \A c \in Calls :
        LET k == calls[c]
        IN  (/\ Done(c)
             /\ k.path \in {"remote", "local"}
             /\ RemoteFreshAtRead(k) /\ LocalFreshAtRead(k)) =>
                LET rt == getTime(k.remoteRead[1].updated_at)
                    lt == k.localAtRead[1].timestamp
                IN  /\ lt > rt => k.ret = k.localAtRead[1].articles
                    /\ rt > lt => k.ret = k.remoteRead[1].articles

\* C10 amended: a call that returns from cache returns the first fresh batch
\* in the order remote row, local entry: the remote row's whenever the remote
\* read answered with a fresh row, whatever the timestamp of the local entry,
\* and the local entry's only when no fresh remote row was read.
C10_RemoteFirst ==
    \A c \in Calls :
        LET k == calls[c]
        IN  /\ (Done(c) /\ k.path = "remote") =>
                   RemoteFreshAtRead(k) /\ k.ret = k.remoteRead[1].articles
            /\ (Done(c) /\ k.path = "local") =>
                   /\ ~RemoteFreshAtRead(k)
                   /\ LocalFreshAtRead(k)
                   /\ k.ret = k.localAtRead[1].articles

\* a call returned the remote row although the local entry was fresh and
\* more recent
C10_Witness ==
    \E c \in Calls :
        /\ Done(c)
        /\ calls[c].path = "remote"
        /\ LocalFreshAtRead(calls[c])
        /\ calls[c].localAtRead[1].timestamp >
               getTime(calls[c].remoteRead[1].updated_at)

\* C11: a failure of a cache-tier operation is a miss or a no-op; in
\* particular, when every feed resolved and the deduplicated batch is not
\* empty, the call returns that batch even if the local write failed.
C11_CacheFailureIsMiss ==
    \A c \in Calls :
        LET k == calls[c]
            unique == uniqueArticles(Flat(Results(k.fan)))
        IN  (/\ Done(c)
             /\ k.fan # <<>>
             /\ AllResolved(k.fan)
             /\ Len(unique) > 0) =>
                k.ret = unique

\* an upsert is issued only in the turn in which a call returns its fresh
\* batch, one per call, and it is still pending when the call has returned;
\* the settling of an upsert (applied or failed) leaves every call as it is
\* and issues nothing
C12_Step ==
    /\ \A u \in upserts' \ upserts :
           /\ upserts' = upserts \cup {u}
           /\ \E c \in Calls :
                  /\ calls[c].pc = "await"
                  /\ calls'[c].pc = "done"
                  /\ calls'[c].path = "live"
                  /\ calls'[c].ret = u.articles
                  /\ calls'[c].category = u.category
                  /\ calls'[c].upserted = 1
    /\ (upserts' # upserts /\ upserts' \subseteq upserts) =>
           /\ calls' = calls
           /\ Cardinality(upserts') = Cardinality(upserts) - 1

C12_Inv ==
    \A c \in Calls :
        (Done(c) /\ calls[c].path = "live") =>
            /\ calls[c].ret = calls[c].wrote[1]
            /\ calls[c].upserted = IF configured THEN 1 ELSE 0

\* C12: the remote upsert is fire-and-forget: the call returns its fresh
\* batch in the turn that issues the upsert, without waiting for it; the
\* upsert failing, completing later or never completing changes neither the
\* value returned nor the call; it is issued once per call, never again.
C12_UpsertFireAndForget == []C12_Inv /\ [][C12_Step]_vars

\* a call has returned its fresh batch, its upsert has failed, and the remote
\* table does not hold the batch
C12_Witness ==
    \E c \in Calls :
        /\ Done(c)
        /\ calls[c].path = "live"
        /\ calls[c].upserted = 1
        /\ upserts = {}
        /\ rss_feed_cache[calls[c].category] = None


(***************************************************************************)
(* Claims about enhanceArticle.                                            *)
(***************************************************************************)
\* C13: for the calls of enhanceArticle with one article identifier, the
\* generative service is invoked at most once (requests that yielded no
\* content are not counted).
C13_InvokedAtMostOnce ==
    \A a \in ArticleIds : invoked[a] - genFailed[a] <= 1

\* C14: once the in-process cache holds an entry for an article identifier,
\* no step replaces it with another value or removes it.
C14_WriteOnce ==
    [][\A a \in ArticleIds :
           articleMemoryCache[a] # None =>
               articleMemoryCache'[a] = articleMemoryCache[a]]_vars

\* r is the degraded result of a description: a function of it only
IsDegradedOf(r, description) ==
    /\ r.fullArticle =
           <<description,
             "\n\n(Full article generation unavailable at this moment.)">>
    /\ r.summaryShort = description
    /\ r.fullArticleRomanUrdu = description
    /\ r.fullArticleUrdu = description
    /\ r.fullArticleHindi = description
    /\ r.fullArticleTelugu = description
    /\ r.summaryRomanUrdu = "Tarjuma dastiyab nahi hai."
    /\ r.summaryUrdu = "summaryUrdu placeholder"
    /\ r.summaryHindi = "summaryHindi placeholder"
    /\ r.summaryTelugu = "summaryTelugu placeholder"

\* C15 as stated: a call whose remote-cache read failed returns the degraded
\* result.
C15_DegradedAfterReadFailure ==
    \A c \in EnhanceSlots :
        LET k == enhanceCalls[c]
        IN  (k.pc = "done" /\ k.readFailed) =>
                IsDegradedOf(k.ret[1], k.description)

C15_Inv ==
    \A c \in EnhanceSlots :
        LET k == enhanceCalls[c]
        IN  /\ k.pc \in {"idle", "remote", "generate", "done"}
            /\ k.pc = "done" =>
                   /\ k.ret # None
                   /\ k.path = "degraded" =>
                          IsDegradedOf(k.ret[1], k.description)
                   /\ (k.path \notin {"memory", "remote"} /\ ~apiKey) =>
                          k.path = "degraded"

C15_Step ==
    \A c \in EnhanceSlots :
        LET k == enhanceCalls[c]
            n == enhanceCalls'[c]
        IN  /\ (\E how \in GenerationFailures : GenerationFails(c, how)) =>
                   /\ n.pc = "done"
                   /\ IsDegradedOf(n.ret[1], k.description)
            /\ ArticleReadFails(c) =>
                   \/ apiKey /\ n.pc = "generate"
                   \/ /\ ~apiKey
                      /\ n.pc = "done"
                      /\ IsDegradedOf(n.ret[1], k.description)

\* C15 amended: enhanceArticle never raises; a failed read of the remote
\* cache is a miss (generation is attempted); on every generation failure
\* (missing key, rejected request, empty text, unparsable text, null) the
\* call returns the degraded result, a function of the description only.
C15_DegradedOnGenerationFailure == []C15_Inv /\ [][C15_Step]_vars

\* a call whose remote read failed has returned the degraded result of the
\* description d2 after a failed generation
C15_Witness ==
    \E c \in EnhanceSlots :
        /\ enhanceCalls[c].pc = "done"
        /\ enhanceCalls[c].readFailed
        /\ enhanceCalls[c].path = "degraded"
        /\ enhanceCalls[c].description = "d2"
        /\ genFailed[enhanceCalls[c].id] > 0

(***************************************************************************)
(* Claims about generateNewsAudio.                                         *)
(***************************************************************************)
\* C16: a call whose text is empty after cleaning raises the empty-text
\* error (and returns no clip).
C16_EmptyTextRaises ==
    \A c \in AudioSlots :
        LET k == audioCalls[c]
        IN  (k.pc \in {"done", "raised"} /\ cleanText(k.text) = <<>>) =>
                /\ k.pc = "raised"
                /\ k.error = "Audio generation failed: Empty text"

\* C17: a call raises only when its text is empty after cleaning or when the
\* generation failed.
C17_RaisesOnlyEmptyOrGeneration ==
    \A c \in AudioSlots :
        audioCalls[c].pc = "raised" =>
            audioCalls[c].error \in {"Audio generation failed: Empty text",
                                     "TTS generation failed."}

\* C18: a clip returned from a cache tier was generated for the narrated
\* text of the call.
C18_HitIsSameNarratedText ==
    \A c \in AudioSlots :
        LET k == audioCalls[c]
        IN  (k.pc = "done" /\ k.path \in {"memory", "remote"}) =>
                k.ret[1].spoken = speechText(k.text)

(***************************************************************************)
(* Claims about generateId.                                                *)
(***************************************************************************)
\* h * 31 + code, wrapped to 32 bits
Times31Plus(h, code) ==
    LET low == h[2] * 31 + code
    IN  <<(h[1] * 31 + (low \div 65536)) % 65536, low % 65536>>

RECURSIVE Fold31(_, _)
Fold31(h, s) ==
    IF s = <<>> THEN h ELSE Fold31(Times31Plus(h, Head(s)), Tail(s))

\* |h| for the signed reading of a 32-bit pattern
Magnitude(h) ==
    IF h[1] < 32768 THEN h
    ELSE <<(65536 - h[1] - (IF h[2] = 0 THEN 0 ELSE 1)) % 65536,
           (65536 - h[2]) % 65536>>

\* the value of a base-36 digit
Value36(ch) == IF ch \in 48..57 THEN ch - 48 ELSE ch - 87

\* the number written by a sequence of base-36 digits
RECURSIVE FromBase36(_, _)
FromBase36(acc, ds) ==
    IF ds = <<>> THEN acc
    ELSE LET low == acc[2] * 36 + Value36(Head(ds))
         IN  FromBase36(<<acc[1] * 36 + (low \div 65536), low % 65536>>,
                        Tail(ds))

\* C19: the token is 'rss_' followed by the base-36 encoding (digits 0-9 and
\* a-z, no leading zero) of |h|, where h folds the character codes with
\* h := h * 31 + code wrapped to the 32-bit signed range, from 0.
C19_GenerateIdIsFold31 ==
    id # None =>
        LET digits == SubSeq(id[1], 5, Len(id[1]))
        IN  /\ SubSeq(id[1], 1, 4) = <<114, 115, 115, 95>>
            /\ Len(digits) >= 1
            /\ \A i \in 1..Len(digits) :
                   digits[i] \in 48..57 \/ digits[i] \in 97..122
            /\ Len(digits) > 1 => digits[1] # 48
            /\ FromBase36(<<0, 0>>, digits) = Magnitude(Fold31(<<0, 0>>, str))

\* the identifier of a string whose hash has wrapped to a negative number
C19_Witness ==
    /\ id # None
    /\ Len(str) = 6
    /\ Fold31(<<0, 0>>, str)[1] >= 32768
    /\ Len(id[1]) >= 9

(***************************************************************************)
(* Claims about gallery_posts and telegram_posts.                          *)
(***************************************************************************)
\* C20 as stated: no operation inserts, updates or deletes a row of
\* gallery_posts or telegram_posts.
C20_TablesReadOnly ==
    [][gallery_posts' = gallery_posts /\ telegram_posts' = telegram_posts]_vars

\* C20 amended: telegram_posts is never written; no row of gallery_posts is
\* updated or deleted, and the only write is the insert of one row by
\* addGalleryPost, carrying the title, description and media_url of its post.
C20_OnlyAddGalleryPostInserts ==
    [][/\ telegram_posts' = telegram_posts
       /\ gallery_posts' # gallery_posts =>
              /\ Len(gallery_posts') = Len(gallery_posts) + 1
              /\ SubSeq(gallery_posts', 1, Len(gallery_posts)) = gallery_posts
              /\ \E c \in TableSlots :
                     /\ tableCalls[c].op = "addGalleryPost"
                     /\ tableCalls[c].pc = "insert"
                     /\ tableCalls'[c].pc = "done"
                     /\ LET new == gallery_posts'[Len(gallery_posts')]
                            post == tableCalls[c].post[1]
                        IN  /\ new.title = post.title
                            /\ new.description = post.description
                            /\ new.media_url = post.media_url]_vars

\* two posts have been inserted, and fetchGalleryPosts has returned them,
\* the later one first
C20_Witness ==
    \E c \in TableSlots :
        /\ Len(gallery_posts) = 2
        /\ tableCalls[c].pc = "done"
        /\ tableCalls[c].op = "fetchGalleryPosts"
        /\ Len(tableCalls[c].ret[1]) = 2
        /\ tableCalls[c].ret[1][1].id = <<"gal_", 2>>

(***************************************************************************)
(* Claims about the cache tiers of fetchNewsForCategory, continued.        *)
(***************************************************************************)
\* C21: a call returns the remote row exactly when the row it read has a
\* non-empty article list and an age below 300000 ms, and the local entry
\* exactly when it did not and the entry has an age below 300000 ms; in every
\* other case (an age of 300000 ms or more, a row with an empty article list,
\* whatever its age) the live fetch is started, and an empty row leaves no
\* stale batch.
C21_FreshnessBoundary ==
    \A c \in Calls :
        LET k == calls[c]
            rowFresh == /\ k.remoteRead # None
                        /\ Len(k.remoteRead[1].articles) > 0
                        /\ k.readAt - getTime(k.remoteRead[1].updated_at) < 300000
            entryFresh == /\ k.localAtRead # None
                          /\ k.readAt - k.localAtRead[1].timestamp < 300000
        IN  k.pc \in {"await", "done"} =>
                /\ k.path = "remote" <=> rowFresh
                /\ k.path = "local" <=> (~rowFresh /\ entryFresh)
                /\ (rowFresh \/ entryFresh) => k.pc = "done" /\ NoRelayRequest(k)
                /\ (~rowFresh /\ ~entryFresh /\ RSS_FEEDS[k.category] # <<>>) =>
                       Len(k.fan) = Len(RSS_FEEDS[k.category])
                /\ (k.remoteRead # None /\ k.remoteRead[1].articles = <<>>) =>
                       k.supabaseStaleData = <<>>

\* a call read a remote row with an empty article list and a local entry
\* aged exactly 300000 ms, and started the live fetch
C21_Witness ==
    \E c \in Calls :
        /\ calls[c].remoteRead # None
        /\ calls[c].remoteRead[1].articles = <<>>
        /\ calls[c].localAtRead # None
        /\ calls[c].readAt - calls[c].localAtRead[1].timestamp = 300000
        /\ calls[c].localStaleData # <<>>
        /\ calls[c].fan # <<>>

\* the local entries change only in the turn in which a call returns the
\* non-empty deduplicated batch of its live fetch, and then only the entry of
\* its category, which becomes that batch with the current time; a call
\* that returns otherwise changes no entry and issues no upsert
C22_Step ==
    /\ \A cat \in Category :
           localStorage'[cat] # localStorage[cat] =>
               /\ \A other \in Category \ {cat} :
                      localStorage'[other] = localStorage[other]
               /\ \E c \in Calls :
                      /\ calls[c].pc = "await"
                      /\ calls'[c].pc = "done"
                      /\ calls'[c].path = "live"
                      /\ calls'[c].category = cat
                      /\ calls'[c].ret # <<>>
                      /\ calls'[c].ret =
                            uniqueArticles(Flat(Results(calls'[c].fan)))
                      /\ localStorage'[cat] # None
                      /\ JSON_parse(localStorage'[cat][1]) =
                            [timestamp |-> now, articles |-> calls'[c].ret]
    /\ \A c \in Calls :
           (/\ calls'[c] # calls[c]
            /\ calls'[c].pc = "done"
            /\ calls'[c].path # "live") =>
               localStorage' = localStorage /\ upserts' = upserts

C22_Inv == \A u \in upserts : u.articles # <<>>

\* C22: the local entry of a category is created or replaced only by a live
\* fetch that produced a non-empty deduplicated batch, wholesale, with that
\* batch and the current time; a call that returns from cache, returns stale
\* data or fetched no article leaves every entry unchanged; no call touches
\* the entry of another category or upserts an empty batch.
C22_LocalEntryFrame == []C22_Inv /\ [][C22_Step]_vars

\* a live fetch has replaced a stale local entry by its batch, with a later
\* timestamp
C22_Witness ==
    \E c \in Calls :
        LET k == calls[c]
        IN  /\ Done(c)
            /\ k.path = "live"
            /\ k.localAtRead # None
            /\ localStorage[k.category] # None
            /\ JSON_parse(localStorage[k.category][1]).articles = k.ret
            /\ JSON_parse(localStorage[k.category][1]).timestamp >
                   k.localAtRead[1].timestamp

\* the remote read of call record k answered with a non-empty row that was
\* stale then
RemoteStaleAtRead(k) ==
    /\ k.remoteRead # None
    /\ Len(k.remoteRead[1].articles) > 0
    /\ ~AgeBelow(getTime(k.remoteRead[1].updated_at), k.readAt)

\* the local store held a non-empty stale entry when call record k read it
LocalStaleAtRead(k) ==
    /\ k.localAtRead # None
    /\ Len(k.localAtRead[1].articles) > 0
    /\ ~AgeBelow(k.localAtRead[1].timestamp, k.readAt)

\* call record k started a live fetch that gave it no article: a fan-out
\* rejected, or all resolved with nothing left after deduplication
NoArticleObtained(k) ==
    /\ k.fan # <<>>
    /\ \/ AnyRejected(k.fan)
       \/ AllResolved(k.fan) /\ uniqueArticles(Flat(Results(k.fan))) = <<>>

Position(b, u) ==
    IF \E i \in 1..Len(b) : b[i].url = u
    THEN CHOOSE i \in 1..Len(b) : b[i].url = u
    ELSE 0

\* the place of every fetched article: feed index, then item index
Places(fan) ==
    UNION {{<<i, j>> : j \in 1..Len(fan[i].items)} : i \in 1..Len(fan)}

Before(p, q) == p[1] < q[1] \/ (p[1] = q[1] /\ p[2] < q[2])

\* C24: the batch a live fetch returns does not depend on the order in which
\* the fan-outs complete: the articles appear in feed-list order, then item
\* order, and of the articles whose titles collide the one kept is the first
\* in that order, so across feeds the one of the feed listed earlier.
C24_FeedListOrder ==
    \A c \in Calls :
        LET k == calls[c]
            At(p) == k.fan[p[1]].items[p[2]]
            kept == {p \in Places(k.fan) :
                        \A q \in Places(k.fan) :
                            Before(q, p) =>
                                normalizedTitle(At(q)) # normalizedTitle(At(p))}
        IN  (Done(c) /\ k.path = "live") =>
                /\ Len(k.ret) = Cardinality(kept)
                /\ \A p \in kept : Position(k.ret, At(p).url) > 0
                /\ \A p, q \in kept :
                       Before(p, q) =>
                           Position(k.ret, At(p).url) <
                               Position(k.ret, At(q).url)

\* the second feed resolved before the first, both carried an article of
\* the same normalized title, and the first feed's article is the one kept
C24_Witness ==
    \E c \in Calls :
        LET k == calls[c]
        IN  /\ Done(c)
            /\ k.path = "live"
            /\ Len(k.fan) = 2
            /\ k.fan[2].rank < k.fan[1].rank
            /\ \E x \in 1..Len(k.fan[1].items), y \in 1..Len(k.fan[2].items) :
                   /\ normalizedTitle(k.fan[1].items[x]) =
                          normalizedTitle(k.fan[2].items[y])
                   /\ Position(k.ret, k.fan[1].items[x].url) > 0
                   /\ Position(k.ret, k.fan[2].items[y].url) = 0

(***************************************************************************)
(* Claims about the cache tiers of enhanceArticle.                         *)
(***************************************************************************)
\* call c returns in this step by the given path
ReturnsBy(c, path) ==
    /\ enhanceCalls[c].pc # "done"
    /\ enhanceCalls'[c].pc = "done"
    /\ enhanceCalls'[c].path = path

\* C25 as stated: a call for an identifier made after a call for it has
\* fallen back attempts generation again.
C25_LaterCallGenerates ==
    \A c \in EnhanceSlots :
        LET k == enhanceCalls[c]
        IN  (k.pc = "done" /\ k.failedBefore > 0) =>
                k.path \in {"generated", "degraded"}

C25_Inv ==
    /\ \A a \in ArticleIds, d \in Descriptions :
           /\ articleMemoryCache[a] # None =>
                  ~IsDegradedOf(articleMemoryCache[a][1], d)
           /\ ai_articles_cache[a] # None =>
                  ~IsDegradedOf(ai_articles_cache[a][1], d)
    /\ \A u \in articleUpserts, d \in Descriptions : ~IsDegradedOf(u.data, d)

C25_Step ==
    /\ \A a \in ArticleIds :
           articleMemoryCache'[a] # articleMemoryCache[a] =>
               \E c \in EnhanceSlots :
                   /\ enhanceCalls[c].id = a
                   /\ articleMemoryCache'[a] = enhanceCalls'[c].ret
                   /\ \/ /\ ReturnsBy(c, "remote")
                         /\ enhanceCalls[c].pc = "remote"
                         /\ ai_articles_cache[a] = enhanceCalls'[c].ret
                      \/ /\ ReturnsBy(c, "generated")
                         /\ enhanceCalls[c].pc = "generate"
    /\ \A u \in articleUpserts' \ articleUpserts :
           \E c \in EnhanceSlots :
               /\ ReturnsBy(c, "generated")
               /\ enhanceCalls[c].pc = "generate"
               /\ u = [article_id |-> enhanceCalls[c].id,
                       data |-> enhanceCalls'[c].ret[1]]
    /\ \A c \in EnhanceSlots :
           ReturnsBy(c, "degraded") =>
               /\ articleMemoryCache' = articleMemoryCache
               /\ articleUpserts' = articleUpserts
               /\ ai_articles_cache' = ai_articles_cache
    /\ \A c \in EnhanceSlots :
           LET k == enhanceCalls[c]
               n == enhanceCalls'[c]
               missed == \/ /\ k.pc \in {"idle", "done"}
                            /\ n # k
                            /\ articleMemoryCache[n.id] = None
                            /\ ~configured
                         \/ /\ k.pc = "remote"
                            /\ n # k
                            /\ (n.readFailed \/ ai_articles_cache[k.id] = None)
           IN  (missed /\ n.failedBefore > 0) =>
                   IF apiKey
                   THEN n.pc = "generate" /\ invoked'[n.id] = invoked[n.id] + 1
                   ELSE n.pc = "done" /\ n.path = "degraded"

\* C25: the degraded fallback result is never cached: the in-process cache
\* takes a value only from a remote row that was read or from a successful
\* generation, a row is upserted only with a generated value, and a call that
\* falls back changes neither; a call for the same identifier made after
\* a fallback attempts generation again when it finds no entry at either tier.
C25_FallbackNeverCached == []C25_Inv /\ [][C25_Step]_vars

\* after a fallback for its identifier, a call found both tiers empty,
\* invoked the service again and cached what it generated
C25_Witness ==
    \E c \in EnhanceSlots :
        LET k == enhanceCalls[c]
        IN  /\ k.pc = "done"
            /\ k.failedBefore > 0
            /\ k.path = "generated"
            /\ configured
            /\ articleMemoryCache[k.id] = k.ret
            /\ invoked[k.id] >= 2

\* a call of enhanceArticle begins in slot c (the first free one) in this step
Begins(c) ==
    /\ enhanceCalls[c].pc \in {"idle", "done"}
    /\ \A other \in EnhanceSlots :
           other < c => enhanceCalls[other].pc \notin {"idle", "done"}
    /\ geminiStarted' # geminiStarted
    /\ \A other \in EnhanceSlots \ {c} :
           enhanceCalls'[other] = enhanceCalls[other]

C26_Step ==
    \A c \in EnhanceSlots :
        LET k == enhanceCalls[c]
            n == enhanceCalls'[c]
        IN  \* 1. the in-process cache is consulted first
            /\ (Begins(c) /\ articleMemoryCache[n.id] # None) =>
                   /\ n.pc = "done"
                   /\ n.ret = articleMemoryCache[n.id]
                   /\ invoked' = invoked
                   /\ articleUpserts' = articleUpserts
            \* 2. the remote table is read only after a miss there
            /\ (k.pc # "remote" /\ n.pc = "remote") =>
                   /\ Begins(c)
                   /\ articleMemoryCache[n.id] = None
                   /\ invoked' = invoked
            /\ (k.pc = "remote" /\ n # k /\ ~n.readFailed
                    /\ ai_articles_cache[k.id] # None) =>
                   /\ n.pc = "done"
                   /\ n.ret = ai_articles_cache[k.id]
                   /\ articleMemoryCache'[k.id] = ai_articles_cache[k.id]
                   /\ invoked' = invoked
                   /\ articleUpserts' = articleUpserts
            \* 3. the service is invoked only after both have missed
            /\ (k.pc # "generate" /\ n.pc = "generate") =>
                   /\ invoked'[n.id] = invoked[n.id] + 1
                   /\ \/ /\ Begins(c)
                         /\ articleMemoryCache[n.id] = None
                         /\ ~configured
                      \/ /\ k.pc = "remote"
                         /\ n.readFailed \/ ai_articles_cache[k.id] = None
            /\ \A a \in ArticleIds :
                   invoked'[a] # invoked[a] =>
                       \E d \in EnhanceSlots :
                           /\ enhanceCalls[d].pc # "generate"
                           /\ enhanceCalls'[d].pc = "generate"
                           /\ enhanceCalls'[d].id = a

\* C26: enhanceArticle consults the in-process cache, then the remote table,
\* then the generative service: a hit in the in-process cache returns at once,
\* with no remote read and no invocation; a row read from the remote table is
\* stored in the in-process cache and returned, with no invocation and no
\* upsert; the service is invoked only by a call that missed both tiers.
C26_TierOrder == [][C26_Step]_vars

\* a row of the remote table was read and kept, and a later call returned it
\* from the in-process cache; the service was never invoked for the identifier
C26_Witness ==
    \E c \in EnhanceSlots :
        LET k == enhanceCalls[c]
        IN  /\ k.pc = "done"
            /\ k.path = "memory"
            /\ k.ret = ai_articles_cache[k.id]
            /\ articleMemoryCache[k.id] = k.ret
            /\ invoked[k.id] = 0
            /\ articleUpserts = {}

====
